---- MODULE Spec2Model ----
(***************************************************************************)
(* PositionTracker (the position ledger of the trading bot): open          *)
(* positions keyed by pair, the closed history, the bounded activity feed  *)
(* and the positions.json snapshot.                                        *)
(*                                                                         *)
(* Numbers are exact: prices, volumes and USD profits are integers, and    *)
(* every percentage or ratio the code computes by a division is kept as a  *)
(* fraction <<numerator, denominator>> with a positive denominator and     *)
(* compared by cross-multiplication.  IEEE-754 rounding is not modelled.   *)
(* Date.now() is the variable now, in milliseconds.                        *)
(***************************************************************************)
EXTENDS Integers, Sequences, FiniteSets, TLC

VARIABLES
    positions,        \* Map<string, Position>, as the sequence of its values in insertion order
    closedPositions,  \* Position[]
    activityFeed,     \* ActivityFeedEntry[]
    disk,             \* content of positions.json, or NoFile
    diskWorking,      \* whether fs.writeFileSync succeeds (environment)
    now,              \* Date.now()
    nextId,           \* identity of the next Position object allocated
    accountBalance,   \* the balance drawdown is measured against
    calls,            \* number of ledger calls made so far
    last,             \* the last call: its name, its arguments and what it returned
    credentials,      \* BinanceClient: apiKey and apiSecret
    lastCallTime,     \* BinanceClient: Date.now() when the last request attempt started
    symbolInfoCache,  \* BinanceClient: Map<string, SymbolInfo>, by symbol
    requests,         \* BinanceClient: the withRetry calls under way, one per request
    started,          \* the instants at which the last two request attempts were started
    orders,           \* the order requests sent to the exchange, in order
    exchange          \* the exchange: the listing of each symbol (environment)

ledgerVars == <<positions, closedPositions, activityFeed, disk, diskWorking, now, nextId,
                accountBalance, calls, last>>

clientVars == <<credentials, lastCallTime, symbolInfoCache, requests, started, orders,
                exchange>>

vars == <<positions, closedPositions, activityFeed, disk, diskWorking, now, nextId,
          accountBalance, calls, last, credentials, lastCallTime, symbolInfoCache,
          requests, started, orders, exchange>>

----------------------------------------------------------------------------
(* Bounds of the model *)

MaxCalls == 4         \* ledger calls in one run
MaxClosed == 3        \* closed trades in the history the statistics start from

(* Inputs drawn by the operations *)

Pairs == {"ETH/USD", "BTC/USD"}
EntryPrices == {3000}
Volumes == {1}
StopLosses == {2900}
ProfitTargets == {3200}
Prices == {2970, 3000, 3005, 3015, 3030, 3060}
PyramidPrices == {3015}
PyramidVolumes == {1}
Confidences == {80}
ExitPrices == {2970, 3060}
ExitReasons == {"Underwater Timeout"}
CheckPrices == {2900, 3200}
Configs == {[underwaterExitMinTimeMinutes |-> 15, underwaterExitThresholdPct |-> <<-8, 1000>>]}
Instants == {0, 15 * 60000}    \* the values Date.now() takes: the start, and 15 minutes later

\* the underwater scenario, in tenths of a dollar: entry at 100.0, volume 10,
\* prices 99.1, 99.2 (a loss of exactly 0.8%), 99.5, 100.0 and 101.0
UnderwaterPairs == {"ETH/USD"}
UnderwaterEntryPrices == {1000}
UnderwaterVolumes == {10}
UnderwaterPrices == {991, 992, 995, 1000, 1010}
\* Date.now() one millisecond before the 15th minute, at it, and after it
UnderwaterInstants == {0, 15 * 60000 - 1, 15 * 60000, 15 * 60000 + 1}

\* the advisory queries: one pair, an L0 volume of 0 or 1, profits as fractions
\* of the entry below, at and above the L1 trigger of 4.5% and the L2 trigger of 8%
QueryPairs == {"ETH/USD"}
QueryVolumes == {0, 1}
QueryPrices == {2970, 3060}
CurrentProfits == {<<1, 100>>, <<45, 1000>>, <<8, 100>>}
L1TriggerPcts == {<<45, 1000>>}
L2TriggerPcts == {<<8, 100>>}
Limits == {0, 1, 2, 20}
ReadyProfits == {<<8, 100>>}

\* the dashboard health: a peak of 60 at 3060, then prices at and just past a
\* giveback of 15% (3051), 35% (3039) and 50% (3030) of the peak; Date.now() at
\* 240 minutes and one millisecond later
HealthPrices == {3060, 3051, 3050, 3039, 3038, 3030, 3029}
HealthInstants == {0, 240 * 60000, 240 * 60000 + 1}

\* the performance statistics: closed histories of up to MaxClosed trades of
\* ETH/USD entered at 3000 x 1 and closed at a loss, at breakeven or at a gain
StatsExitPrices == {2970, 3000, 3060}
AccountBalances == {0, 1000, 2000}

\* the alerts already in the feed when the long run is taken up
LoggedAlerts == 97

(* Program constants *)

maxActivityFeedSize == 100
profitLockGivebackPct == <<1, 2>>     \* 0.5
DefaultErosionCap == <<8, 1000>>      \* 0.008
DefaultAdx == 0
DefaultRegime == "moderate"
DefaultAccountBalance == 1000

NoFile == [exists |-> FALSE]
Void == "void"

(* BinanceClient *)

REQUEST_DELAY_MS == 100
MAX_RETRIES == 2
TIMEOUT_MS == 10000
TIME_SYNC_INTERVAL_MS == 60000

MaxRequests == 3      \* withRetry calls that overlap
MaxRetryCalls == 2    \* withRetry calls made one after the other

Symbols == {"ETHUSD", "BTCUSD"}
Requests == 1..MaxRequests
NotCached == [cached |-> FALSE]
Idle == [pc |-> "idle", retries |-> 0, attempt |-> 0, due |-> 0, timeout |-> 0,
         invoked |-> 0, statuses |-> <<>>, failedAt |-> 0]
TestCredentials == [apiKey |-> "test-key", apiSecret |-> "test-secret"]
NotListed == [listed |-> FALSE]

\* the fields of a client after its constructor, with nothing asked of it yet
Constructed(apiKey, apiSecret) ==
    /\ credentials = [apiKey |-> apiKey, apiSecret |-> apiSecret]
    /\ lastCallTime = 0
    /\ symbolInfoCache = [symbol \in Symbols |-> NotCached]
    /\ requests = [r \in Requests |-> Idle]
    /\ started = <<>>
    /\ orders = <<>>

\* a client that takes no part in the run
ClientAtRest ==
    /\ Constructed(TestCredentials.apiKey, TestCredentials.apiSecret)
    /\ exchange = [symbol \in Symbols |-> NotListed]

----------------------------------------------------------------------------
(* Fractions *)

Frac(n, d) == IF d < 0 THEN <<-n, -d>> ELSE <<n, d>>
FracLt(a, b) == a[1] * b[2] < b[1] * a[2]

----------------------------------------------------------------------------
(* The Map of open positions *)

IndexOf(map, pair) ==
    IF \E i \in 1..Len(map) : map[i].pair = pair
    THEN CHOOSE i \in 1..Len(map) : map[i].pair = pair /\ \A j \in 1..(i-1) : map[j].pair # pair
    ELSE 0

\* positions.has(pair)
MapHas(map, pair) == IndexOf(map, pair) # 0

\* positions.get(pair), defined when MapHas(map, pair)
MapGet(map, pair) == map[IndexOf(map, pair)]

\* positions.set(pair, position): replaces in place, or appends a new key
MapSet(map, pair, position) ==
    IF MapHas(map, pair)
    THEN [map EXCEPT ![IndexOf(map, pair)] = position]
    ELSE Append(map, position)

\* variant: the key is not removed
MapDeleteNothing(map, pair) == map

\* positions.delete(pair)
MapDelete(map, pair) == SelectSeq(map, LAMBDA p : p.pair # pair)

----------------------------------------------------------------------------
(* Persistence *)

\* JSON.stringify of one Position: its fields, without the object's identity
Serialize(position) == [f \in (DOMAIN position) \ {"id"} |-> position[f]]

SerializeAll(list) == [i \in 1..Len(list) |-> Serialize(list[i])]

\* variant: only the closed history is written
SavePositionsClosedOnly(map, closed) ==
    IF diskWorking
    THEN [open |-> <<>>, closed |-> SerializeAll(closed), timestamp |-> now]
    ELSE disk

\* savePositions(): the file after the call; a failed write is caught and leaves the file as it was
SavePositions(map, closed) ==
    IF diskWorking
    THEN [open |-> SerializeAll(map), closed |-> SerializeAll(closed), timestamp |-> now]
    ELSE disk

\* variant: a full feed keeps its first 100 records and drops the new one
LogActivityKeepsOldest(feed, entry) ==
    LET pushed == Append(feed, entry)
    IN IF Len(pushed) > maxActivityFeedSize
       THEN SubSeq(pushed, 1, maxActivityFeedSize)
       ELSE pushed

\* logActivity(entry): the feed after the call
LogActivity(feed, entry) ==
    LET pushed == Append(feed, entry)
    IN IF Len(pushed) > maxActivityFeedSize
       THEN SubSeq(pushed, Len(pushed) - maxActivityFeedSize + 1, Len(pushed))
       ELSE pushed

\* one more ledger call, named op, on pair with the other arguments args, returning ret
Call(op, pair, args, ret) ==
    /\ calls < MaxCalls
    /\ calls' = calls + 1
    /\ last' = [op |-> op, pair |-> pair, args |-> args, ret |-> ret]
    /\ UNCHANGED <<diskWorking, now, accountBalance>>
    /\ UNCHANGED clientVars

----------------------------------------------------------------------------
Init ==
    /\ positions = <<>>
    /\ closedPositions = <<>>
    /\ activityFeed = <<>>
    /\ disk = NoFile
    /\ diskWorking = TRUE
    /\ now = 0
    /\ nextId = 1
    /\ accountBalance = DefaultAccountBalance
    /\ ClientAtRest
    /\ calls = 0
    /\ last = [op |-> "new", pair |-> "", args |-> <<>>, ret |-> Void]

----------------------------------------------------------------------------
(* addPosition *)

\* the Position object addPosition builds, as the id-th object, at time entryTime
NewPositionAt(id, entryTime, pair, entryPrice, volume, stopLoss, profitTarget) ==
    [ id |-> id,
      pair |-> pair,
      entryPrice |-> entryPrice,
      volume |-> volume,
      entryTime |-> entryTime,
      stopLoss |-> stopLoss,
      profitTarget |-> profitTarget,
      pyramidLevels |-> <<>>,
      totalVolume |-> volume,
      pyramidLevelsActivated |-> 0,
      currentProfit |-> 0,
      profitPct |-> <<0, 1>>,
      peakProfit |-> 0,
      erosionCap |-> DefaultErosionCap,
      erosionUsed |-> 0,
      aiReasoning |-> <<"reasoning">>,
      adx |-> DefaultAdx,
      regime |-> DefaultRegime,
      status |-> "open" ]

NewPosition(pair, entryPrice, volume, stopLoss, profitTarget) ==
    NewPositionAt(nextId, now, pair, entryPrice, volume, stopLoss, profitTarget)

\* variant: a second entry for an open pair is accepted
AddPositionNeverRefused(pair) == FALSE

\* if (this.positions.has(pair)) return;
AddPositionRefused(pair) == MapHas(positions, pair)

AddPosition(pair, entryPrice, volume, stopLoss, profitTarget) ==
    /\ Call("addPosition", pair, <<entryPrice, volume, stopLoss, profitTarget>>, Void)
    /\ IF AddPositionRefused(pair)
       THEN UNCHANGED <<positions, closedPositions, activityFeed, disk, nextId>>
       ELSE /\ positions' = MapSet(positions, pair,
                                   NewPosition(pair, entryPrice, volume, stopLoss, profitTarget))
            /\ nextId' = nextId + 1
            /\ disk' = SavePositions(positions', closedPositions)
            /\ activityFeed' = LogActivity(activityFeed,
                   [timestamp |-> now, pair |-> pair, action |-> "ENTRY",
                    details |-> [price |-> entryPrice, volume |-> volume]])
            /\ UNCHANGED closedPositions

\* getOpenPositions()
OpenPositions == SelectSeq(positions, LAMBDA p : p.status = "open")

----------------------------------------------------------------------------
(* updatePosition *)

\* totalCost: L0 cost plus the cost of every pyramid level
RECURSIVE SumCost(_)
SumCost(levels) ==
    IF levels = <<>> THEN 0
    ELSE levels[1].entryPrice * levels[1].volume + SumCost(Tail(levels))

RECURSIVE SumProfit(_, _)
SumProfit(levels, currentPrice) ==
    IF levels = <<>> THEN 0
    ELSE (currentPrice - levels[1].entryPrice) * levels[1].volume
         + SumProfit(Tail(levels), currentPrice)

TotalCost(position) ==
    position.entryPrice * position.volume + SumCost(position.pyramidLevels)

\* variant: one blended figure, the L0 entry price on the whole volume
TotalProfitBlended(position, currentPrice) ==
    (currentPrice - position.entryPrice) * position.totalVolume

\* totalProfit: L0 profit plus the profit of every pyramid level
TotalProfit(position, currentPrice) ==
    (currentPrice - position.entryPrice) * position.volume
    + SumProfit(position.pyramidLevels, currentPrice)

\* variant: the peak is overwritten by every refresh
RefreshedPeakFollowsPrice(position, currentPrice) ==
    LET totalProfit == TotalProfit(position, currentPrice)
        totalCost == TotalCost(position)
        profitPct == IF totalCost > 0 THEN Frac(totalProfit * 100, totalCost) ELSE <<0, 1>>
    IN [position EXCEPT !.currentProfit = totalProfit,
                        !.profitPct = profitPct,
                        !.peakProfit = totalProfit,
                        !.erosionUsed = 0]

\* variant: erosion is always measured from the peak before the refresh
RefreshedErosionFromOldPeak(position, currentPrice) ==
    LET totalProfit == TotalProfit(position, currentPrice)
        totalCost == TotalCost(position)
        profitPct == IF totalCost > 0 THEN Frac(totalProfit * 100, totalCost) ELSE <<0, 1>>
    IN [position EXCEPT !.currentProfit = totalProfit,
                        !.profitPct = profitPct,
                        !.peakProfit = IF totalProfit > @ THEN totalProfit ELSE @,
                        !.erosionUsed = position.peakProfit - totalProfit]

\* variant: the erosion is left as it was when a new peak is set
RefreshedKeepsErosionAtPeak(position, currentPrice) ==
    LET totalProfit == TotalProfit(position, currentPrice)
        totalCost == TotalCost(position)
        profitPct == IF totalCost > 0 THEN Frac(totalProfit * 100, totalCost) ELSE <<0, 1>>
    IN IF totalProfit > position.peakProfit
       THEN [position EXCEPT !.currentProfit = totalProfit,
                             !.profitPct = profitPct,
                             !.peakProfit = totalProfit]
       ELSE [position EXCEPT !.currentProfit = totalProfit,
                             !.profitPct = profitPct,
                             !.erosionUsed = position.peakProfit - totalProfit]

\* the position object after updatePosition's body has run on it
Refreshed(position, currentPrice) ==
    LET totalProfit == TotalProfit(position, currentPrice)
        totalCost == TotalCost(position)
        profitPct == IF totalCost > 0 THEN Frac(totalProfit * 100, totalCost) ELSE <<0, 1>>
    IN IF totalProfit > position.peakProfit
       THEN [position EXCEPT !.currentProfit = totalProfit,
                             !.profitPct = profitPct,
                             !.peakProfit = totalProfit,
                             !.erosionUsed = 0]
       ELSE [position EXCEPT !.currentProfit = totalProfit,
                             !.profitPct = profitPct,
                             !.erosionUsed = position.peakProfit - totalProfit]

\* variant: the price refreshes every open position
UpdatePositionOfEveryPair(pair, currentPrice) ==
    /\ Call("updatePosition", pair, <<currentPrice>>, Void)
    /\ IF ~MapHas(positions, pair)
       THEN UNCHANGED positions
       ELSE positions' = [i \in 1..Len(positions) |-> Refreshed(positions[i], currentPrice)]
    /\ UNCHANGED <<closedPositions, activityFeed, disk, nextId>>

UpdatePosition(pair, currentPrice) ==
    /\ Call("updatePosition", pair, <<currentPrice>>, Void)
    /\ IF ~MapHas(positions, pair)
       THEN UNCHANGED positions
       ELSE positions' = MapSet(positions, pair, Refreshed(MapGet(positions, pair), currentPrice))
    /\ UNCHANGED <<closedPositions, activityFeed, disk, nextId>>

----------------------------------------------------------------------------
(* addPyramidLevel *)

HasLevel(position, level) ==
    \E i \in 1..Len(position.pyramidLevels) : position.pyramidLevels[i].level = level

\* variant: only the maximum of two levels is enforced
PyramidRefusedAtMaxOnly(position, level) == position.pyramidLevelsActivated >= 2

\* the early returns of addPyramidLevel on an existing position
PyramidRefused(position, level) ==
    \/ position.pyramidLevelsActivated >= 2
    \/ HasLevel(position, level)

NewPyramidLevel(level, entryPrice, volume, aiConfidence) ==
    [ level |-> level,
      entryPrice |-> entryPrice,
      volume |-> volume,
      entryTime |-> now,
      triggerProfitPct |-> IF level = 1 THEN <<45, 1000>> ELSE <<8, 100>>,
      aiConfidence |-> aiConfidence,
      status |-> "active" ]

\* variant: the level is added without raising totalVolume
WithPyramidLevelSameVolume(position, pyramidLevel) ==
    [position EXCEPT !.pyramidLevels = Append(@, pyramidLevel),
                     !.pyramidLevelsActivated = @ + 1]

\* variant: the level is added without being counted
WithPyramidLevelUncounted(position, pyramidLevel) ==
    [position EXCEPT !.pyramidLevels = Append(@, pyramidLevel),
                     !.totalVolume = @ + pyramidLevel.volume]

\* the position object after the three mutations of addPyramidLevel
WithPyramidLevel(position, pyramidLevel) ==
    [position EXCEPT !.pyramidLevels = Append(@, pyramidLevel),
                     !.totalVolume = @ + pyramidLevel.volume,
                     !.pyramidLevelsActivated = @ + 1]

AddPyramidLevel(pair, level, entryPrice, volume, aiConfidence) ==
    IF ~MapHas(positions, pair) \/ PyramidRefused(MapGet(positions, pair), level)
    THEN /\ Call("addPyramidLevel", pair, <<level, entryPrice, volume, aiConfidence>>, FALSE)
         /\ UNCHANGED <<positions, closedPositions, activityFeed, disk, nextId>>
    ELSE /\ Call("addPyramidLevel", pair, <<level, entryPrice, volume, aiConfidence>>, TRUE)
         /\ positions' = MapSet(positions, pair,
                WithPyramidLevel(MapGet(positions, pair),
                                 NewPyramidLevel(level, entryPrice, volume, aiConfidence)))
         /\ disk' = SavePositions(positions', closedPositions)
         /\ activityFeed' = LogActivity(activityFeed,
                [timestamp |-> now, pair |-> pair, action |-> "PYRAMID",
                 details |-> [price |-> entryPrice, volume |-> volume]])
         /\ UNCHANGED <<closedPositions, nextId>>

----------------------------------------------------------------------------
(* closePosition *)

\* variant: the final profit is taken over L0 and every pyramid level
ClosedOnAllLevels(position, exitPrice, exitReason) ==
    LET profitPct == Frac(exitPrice - position.entryPrice, position.entryPrice)
        stamped == [position EXCEPT
                      !.status = "closed",
                      !.profitPct = <<profitPct[1] * 100, profitPct[2]>>,
                      !.currentProfit = TotalProfit(position, exitPrice)]
    IN stamped @@ [exitPrice |-> exitPrice, exitTime |-> now, exitReason |-> exitReason]

\* the position object after closePosition has stamped it
Closed(position, exitPrice, exitReason) ==
    LET profitPct == Frac(exitPrice - position.entryPrice, position.entryPrice)
        stamped == [position EXCEPT
                      !.status = "closed",
                      !.profitPct = <<profitPct[1] * 100, profitPct[2]>>,
                      !.currentProfit =
                          (position.volume * profitPct[1] * position.entryPrice) \div profitPct[2]]
    IN stamped @@ [exitPrice |-> exitPrice, exitTime |-> now, exitReason |-> exitReason]

\* variant: unshift instead of push
PushClosedInFront(closed, position) == <<position>> \o closed

\* this.closedPositions.push(position)
PushClosed(closed, position) == Append(closed, position)

ClosePosition(pair, exitPrice, exitReason) ==
    /\ Call("closePosition", pair, <<exitPrice, exitReason>>, Void)
    /\ IF ~MapHas(positions, pair)
       THEN UNCHANGED <<positions, closedPositions, activityFeed, disk, nextId>>
       ELSE LET position == Closed(MapGet(positions, pair), exitPrice, exitReason)
            IN /\ activityFeed' = LogActivity(activityFeed,
                      [timestamp |-> now, pair |-> pair, action |-> "EXIT",
                       details |-> [price |-> exitPrice, profit |-> position.currentProfit,
                                    profitPct |-> position.profitPct, reason |-> exitReason]])
               /\ closedPositions' = PushClosed(closedPositions, position)
               /\ positions' = MapDelete(positions, pair)
               /\ disk' = SavePositions(positions', closedPositions')
               /\ UNCHANGED nextId

----------------------------------------------------------------------------
(* clearAll *)

ClearAll ==
    /\ Call("clearAll", "", <<>>, Void)
    /\ positions' = <<>>
    /\ UNCHANGED <<closedPositions, activityFeed, disk, nextId>>

----------------------------------------------------------------------------
(* The risk gates *)

\* n/d rounded to the nearest integer, halves away from zero (Number.prototype.toFixed)
RoundDiv(n, d) ==
    IF n >= 0 THEN (2 * n + d) \div (2 * d) ELSE -((2 * (-n) + d) \div (2 * d))

\* parseFloat(x.toFixed(2)), as a fraction over 100
ToFixed2(x) == <<RoundDiv(x[1] * 100, x[2]), 100>>

\* parseFloat(x.toFixed(1)), as a fraction over 10
ToFixed1(x) == <<RoundDiv(x[1] * 10, x[2]), 10>>

\* peakProfitPct = totalCost > 0 ? (peakProfit / totalCost) * 100 : 0
PeakProfitPct(position) ==
    IF TotalCost(position) > 0
    THEN Frac(position.peakProfit * 100, TotalCost(position))
    ELSE <<0, 1>>

\* variant: no 1.0% floor on the peak
ErosionCapExceededWithoutFloor(position) ==
    IF position.peakProfit <= 0 THEN FALSE
    ELSE FracLt(profitLockGivebackPct, Frac(position.erosionUsed, position.peakProfit))

\* variant: a giveback equal to the allowed fraction already fires
ErosionCapExceededAtEqual(position) ==
    IF position.peakProfit <= 0 THEN FALSE
    ELSE IF FracLt(PeakProfitPct(position), <<1, 1>>) THEN FALSE
    ELSE ~FracLt(Frac(position.erosionUsed, position.peakProfit), profitLockGivebackPct)

\* variant: a position now at a loss is left to the collapse gate
ErosionCapExceededWhileInProfit(position) ==
    IF position.peakProfit <= 0 THEN FALSE
    ELSE IF position.currentProfit < 0 THEN FALSE
    ELSE IF FracLt(PeakProfitPct(position), <<1, 1>>) THEN FALSE
    ELSE FracLt(profitLockGivebackPct, Frac(position.erosionUsed, position.peakProfit))

\* what checkErosionCap returns for an existing position
ErosionCapExceeded(position) ==
    IF position.peakProfit <= 0 THEN FALSE
    ELSE IF FracLt(PeakProfitPct(position), <<1, 1>>) THEN FALSE
    ELSE FracLt(profitLockGivebackPct, Frac(position.erosionUsed, position.peakProfit))

\* variant: the gate closes the position itself when it fires
CheckErosionCapThenCloses(pair) ==
    IF MapHas(positions, pair) /\ ErosionCapExceeded(MapGet(positions, pair))
    THEN /\ Call("checkErosionCap", pair, <<>>, TRUE)
         /\ closedPositions' = Append(closedPositions,
                                      [MapGet(positions, pair) EXCEPT !.status = "closed"])
         /\ positions' = MapDelete(positions, pair)
         /\ disk' = SavePositions(positions', closedPositions')
         /\ UNCHANGED <<activityFeed, nextId>>
    ELSE /\ Call("checkErosionCap", pair, <<>>, FALSE)
         /\ UNCHANGED <<positions, closedPositions, activityFeed, disk, nextId>>

CheckErosionCap(pair) ==
    IF MapHas(positions, pair) /\ ErosionCapExceeded(MapGet(positions, pair))
    THEN LET position == MapGet(positions, pair)
             givebackPct == Frac(position.erosionUsed * 100, position.peakProfit)
         IN /\ Call("checkErosionCap", pair, <<>>, TRUE)
            /\ activityFeed' = LogActivity(activityFeed,
                   [timestamp |-> now, pair |-> pair, action |-> "EROSION_ALERT",
                    details |-> [erosionPct |-> ToFixed2(givebackPct),
                                 peakProfit |-> ToFixed2(<<position.peakProfit, 1>>),
                                 currentProfit |-> ToFixed2(<<position.currentProfit, 1>>)]])
            /\ UNCHANGED <<positions, closedPositions, disk, nextId>>
    ELSE /\ Call("checkErosionCap", pair, <<>>, FALSE)
         /\ UNCHANGED <<positions, closedPositions, activityFeed, disk, nextId>>

\* ageMinutes = (Date.now() - position.entryTime) / 60000
AgeMinutes(position) == Frac(now - position.entryTime, 60000)

\* variant: the position must be older than the minimum time
UnderwaterExitAfterMinTime(position, config) ==
    IF position.peakProfit > 0 THEN FALSE
    ELSE IF position.currentProfit >= 0 THEN FALSE
    ELSE IF ~FracLt(<<config.underwaterExitMinTimeMinutes, 1>>, AgeMinutes(position)) THEN FALSE
    ELSE LET thresholdPct == <<config.underwaterExitThresholdPct[1] * 100,
                               config.underwaterExitThresholdPct[2]>>
         IN FracLt(position.profitPct, thresholdPct)

\* variant: a position that was once in profit is not left out
UnderwaterExitWhateverThePeak(position, config) ==
    IF position.currentProfit >= 0 THEN FALSE
    ELSE IF FracLt(AgeMinutes(position), <<config.underwaterExitMinTimeMinutes, 1>>) THEN FALSE
    ELSE LET thresholdPct == <<config.underwaterExitThresholdPct[1] * 100,
                               config.underwaterExitThresholdPct[2]>>
         IN FracLt(position.profitPct, thresholdPct)

\* what checkUnderwaterExit returns for an existing position
UnderwaterExit(position, config) ==
    IF position.peakProfit > 0 THEN FALSE
    ELSE IF position.currentProfit >= 0 THEN FALSE
    ELSE IF FracLt(AgeMinutes(position), <<config.underwaterExitMinTimeMinutes, 1>>) THEN FALSE
    ELSE LET thresholdPct == <<config.underwaterExitThresholdPct[1] * 100,
                               config.underwaterExitThresholdPct[2]>>
         IN FracLt(position.profitPct, thresholdPct)

\* the decision of the underwater-exit test scripts on a position read from the
\* tracker: the four conditions, the loss compared with the threshold as configured
shouldExit(ethPosition, defaultConfig) ==
    LET neverWentPositive == ethPosition.peakProfit <= 0
        isUnderwater == ethPosition.currentProfit < 0
        ageMinutes == Frac(now - ethPosition.entryTime, 60000)
        meetsTimeThreshold ==
            ~FracLt(ageMinutes, <<defaultConfig.underwaterExitMinTimeMinutes, 1>>)
        lossPct == ethPosition.profitPct
        meetsLossThreshold == FracLt(lossPct, defaultConfig.underwaterExitThresholdPct)
    IN neverWentPositive /\ isUnderwater /\ meetsTimeThreshold /\ meetsLossThreshold

CheckUnderwaterExit(pair, config) ==
    IF MapHas(positions, pair) /\ UnderwaterExit(MapGet(positions, pair), config)
    THEN LET position == MapGet(positions, pair)
         IN /\ Call("checkUnderwaterExit", pair, <<config>>, TRUE)
            /\ activityFeed' = LogActivity(activityFeed,
                   [timestamp |-> now, pair |-> pair, action |-> "UNDERWATER_ALERT",
                    details |-> [lossPct |-> ToFixed2(position.profitPct),
                                 ageMinutes |-> ToFixed1(AgeMinutes(position))]])
            /\ UNCHANGED <<positions, closedPositions, disk, nextId>>
    ELSE /\ Call("checkUnderwaterExit", pair, <<config>>, FALSE)
         /\ UNCHANGED <<positions, closedPositions, activityFeed, disk, nextId>>

\* variant: a position back at breakeven already counts as collapsed
ProfitableCollapseAtBreakeven(position) ==
    IF FracLt(PeakProfitPct(position), <<1, 2>>) THEN FALSE
    ELSE IF position.currentProfit > 0 THEN FALSE
    ELSE TRUE

\* what checkProfitableCollapse returns for an existing position
ProfitableCollapse(position) ==
    IF FracLt(PeakProfitPct(position), <<1, 2>>) THEN FALSE
    ELSE IF position.currentProfit >= 0 THEN FALSE
    ELSE TRUE

CheckProfitableCollapse(pair) ==
    IF MapHas(positions, pair) /\ ProfitableCollapse(MapGet(positions, pair))
    THEN LET position == MapGet(positions, pair)
         IN /\ Call("checkProfitableCollapse", pair, <<>>, TRUE)
            /\ activityFeed' = LogActivity(activityFeed,
                   [timestamp |-> now, pair |-> pair, action |-> "COLLAPSE_ALERT",
                    details |-> [peakProfitPct |-> ToFixed2(PeakProfitPct(position)),
                                 currentProfitPct |-> ToFixed2(position.profitPct)]])
            /\ UNCHANGED <<positions, closedPositions, disk, nextId>>
    ELSE /\ Call("checkProfitableCollapse", pair, <<>>, FALSE)
         /\ UNCHANGED <<positions, closedPositions, activityFeed, disk, nextId>>

\* variant: a price equal to the stop does not hit it
CheckStopLossBelowOnly(pair, currentPrice) ==
    /\ Call("checkStopLoss", pair, <<currentPrice>>,
            MapHas(positions, pair) /\ currentPrice < MapGet(positions, pair).stopLoss)
    /\ UNCHANGED <<positions, closedPositions, activityFeed, disk, nextId>>

CheckStopLoss(pair, currentPrice) ==
    /\ Call("checkStopLoss", pair, <<currentPrice>>,
            MapHas(positions, pair) /\ currentPrice <= MapGet(positions, pair).stopLoss)
    /\ UNCHANGED <<positions, closedPositions, activityFeed, disk, nextId>>

CheckProfitTarget(pair, currentPrice) ==
    /\ Call("checkProfitTarget", pair, <<currentPrice>>,
            MapHas(positions, pair) /\ currentPrice >= MapGet(positions, pair).profitTarget)
    /\ UNCHANGED <<positions, closedPositions, activityFeed, disk, nextId>>

----------------------------------------------------------------------------
(* new PositionTracker(dataDir): loadPositions *)

\* JSON.parse of one saved Position: a new object with the saved fields
Deserialize(posData, id) == posData @@ [id |-> id]

\* variant: the closed history is read back newest first
LoadClosedNewestFirst(list, firstId) ==
    [i \in 1..Len(list) |-> Deserialize(list[Len(list) + 1 - i], firstId + i - 1)]

\* this.closedPositions = data.closed || []
LoadClosed(list, firstId) ==
    [i \in 1..Len(list) |-> Deserialize(list[i], firstId + i - 1)]

\* for (const posData of openPositionsData) this.positions.set(posData.pair, posData)
LoadOpen(list, firstId) ==
    LET loaded[i \in 0..Len(list)] ==
            IF i = 0 THEN <<>>
            ELSE MapSet(loaded[i - 1], list[i].pair, Deserialize(list[i], firstId + i - 1))
    IN loaded[Len(list)]

\* the process is restarted: a new tracker is constructed on the same data directory
Restart ==
    /\ Call("new", "", <<>>, Void)
    /\ IF disk = NoFile
       THEN /\ closedPositions' = <<>>
            /\ positions' = <<>>
            /\ UNCHANGED nextId
       ELSE /\ closedPositions' = LoadClosed(disk.closed, nextId)
            /\ positions' = LoadOpen(disk.open, nextId + Len(disk.closed))
            /\ nextId' = nextId + Len(disk.closed) + Len(disk.open)
    /\ activityFeed' = <<>>
    /\ UNCHANGED disk

----------------------------------------------------------------------------
(* updateAccountBalance, getPerformanceStats *)

UpdateAccountBalance(balance) ==
    /\ calls < MaxCalls
    /\ calls' = calls + 1
    /\ last' = [op |-> "updateAccountBalance", pair |-> "", args |-> <<balance>>, ret |-> Void]
    /\ accountBalance' = balance
    /\ UNCHANGED <<positions, closedPositions, activityFeed, disk, diskWorking, now, nextId>>
    /\ UNCHANGED clientVars

\* 1/0 in IEEE arithmetic
Infinity == <<1, 0>>

\* the stats returned for an empty history
ZeroStats ==
    [ totalTrades |-> 0, winningTrades |-> 0, losingTrades |-> 0, winRate |-> <<0, 1>>,
      totalProfit |-> 0, totalLoss |-> 0, expectancy |-> <<0, 1>>, profitFactor |-> <<0, 1>>,
      maxDrawdown |-> 0, maxDrawdownPct |-> <<0, 1>> ]

\* variant: the peak of the cumulative profit starts at the first trade, not at 0
StatsLoopPeakFromFirstTrade(closed) ==
    LET loop[i \in 0..Len(closed)] ==
            IF i = 0
            THEN [totalProfit |-> 0, totalLoss |-> 0, winningTrades |-> 0, losingTrades |-> 0,
                  maxDrawdown |-> 0, cumulativeProfit |-> 0, peak |-> 0]
            ELSE LET acc == loop[i - 1]
                     profit == closed[i].currentProfit
                     cumulativeProfit == acc.cumulativeProfit + profit
                     peak == IF i = 1 \/ cumulativeProfit > acc.peak
                             THEN cumulativeProfit ELSE acc.peak
                     drawdown == peak - cumulativeProfit
                 IN [totalProfit |-> IF profit > 0 THEN acc.totalProfit + profit
                                     ELSE acc.totalProfit,
                     totalLoss |-> IF profit > 0 THEN acc.totalLoss
                                   ELSE acc.totalLoss + (IF profit < 0 THEN -profit ELSE profit),
                     winningTrades |-> IF profit > 0 THEN acc.winningTrades + 1
                                       ELSE acc.winningTrades,
                     losingTrades |-> IF profit > 0 THEN acc.losingTrades
                                      ELSE acc.losingTrades + 1,
                     maxDrawdown |-> IF drawdown > acc.maxDrawdown THEN drawdown
                                     ELSE acc.maxDrawdown,
                     cumulativeProfit |-> cumulativeProfit,
                     peak |-> peak]
    IN loop[Len(closed)]

\* the locals of getPerformanceStats after its loop over the closed positions
StatsLoop(closed) ==
    LET loop[i \in 0..Len(closed)] ==
            IF i = 0
            THEN [totalProfit |-> 0, totalLoss |-> 0, winningTrades |-> 0, losingTrades |-> 0,
                  maxDrawdown |-> 0, cumulativeProfit |-> 0, peak |-> 0]
            ELSE LET acc == loop[i - 1]
                     profit == closed[i].currentProfit
                     cumulativeProfit == acc.cumulativeProfit + profit
                     peak == IF cumulativeProfit > acc.peak THEN cumulativeProfit ELSE acc.peak
                     drawdown == peak - cumulativeProfit
                 IN [totalProfit |-> IF profit > 0 THEN acc.totalProfit + profit
                                     ELSE acc.totalProfit,
                     totalLoss |-> IF profit > 0 THEN acc.totalLoss
                                   ELSE acc.totalLoss + (IF profit < 0 THEN -profit ELSE profit),
                     winningTrades |-> IF profit > 0 THEN acc.winningTrades + 1
                                       ELSE acc.winningTrades,
                     losingTrades |-> IF profit > 0 THEN acc.losingTrades
                                      ELSE acc.losingTrades + 1,
                     maxDrawdown |-> IF drawdown > acc.maxDrawdown THEN drawdown
                                     ELSE acc.maxDrawdown,
                     cumulativeProfit |-> cumulativeProfit,
                     peak |-> peak]
    IN loop[Len(closed)]

\* variant: no profit factor without losses
ProfitFactorZeroWithoutLoss(totalProfit, totalLoss) ==
    IF totalLoss > 0 THEN Frac(totalProfit, totalLoss) ELSE <<0, 1>>

\* totalLoss > 0 ? totalProfit / totalLoss : totalProfit > 0 ? Infinity : 0
ProfitFactor(totalProfit, totalLoss) ==
    IF totalLoss > 0 THEN Frac(totalProfit, totalLoss)
    ELSE IF totalProfit > 0 THEN Infinity
    ELSE <<0, 1>>

\* what getPerformanceStats returns
PerformanceStats(closed, balance) ==
    IF Len(closed) = 0 THEN ZeroStats
    ELSE LET end == StatsLoop(closed)
             totalTrades == Len(closed)
         IN [ totalTrades |-> totalTrades,
              winningTrades |-> end.winningTrades,
              losingTrades |-> end.losingTrades,
              winRate |-> IF totalTrades > 0 THEN Frac(end.winningTrades * 100, totalTrades)
                          ELSE <<0, 1>>,
              totalProfit |-> end.totalProfit,
              totalLoss |-> end.totalLoss,
              expectancy |-> IF totalTrades > 0
                             THEN Frac(end.totalProfit - end.totalLoss, totalTrades)
                             ELSE <<0, 1>>,
              profitFactor |-> ProfitFactor(end.totalProfit, end.totalLoss),
              maxDrawdown |-> end.maxDrawdown,
              maxDrawdownPct |-> IF balance > 0 THEN Frac(end.maxDrawdown * 100, balance)
                                 ELSE <<0, 1>> ]

GetPerformanceStats ==
    /\ Call("getPerformanceStats", "", <<>>, PerformanceStats(closedPositions, accountBalance))
    /\ UNCHANGED <<positions, closedPositions, activityFeed, disk, nextId>>

----------------------------------------------------------------------------
(* getPositionHealth *)

\* variant: a giveback equal to a threshold already reaches the next status
HealthStatusAtThreshold(givebackPct, maxGivebackPct) ==
    IF ~FracLt(givebackPct, maxGivebackPct) THEN "ALERT"
    ELSE IF ~FracLt(givebackPct, <<maxGivebackPct[1] * 7, maxGivebackPct[2] * 10>>) THEN "RISK"
    ELSE IF ~FracLt(givebackPct, <<maxGivebackPct[1] * 3, maxGivebackPct[2] * 10>>) THEN "CAUTION"
    ELSE "HEALTHY"

\* healthStatus, from the giveback and the allowed giveback, both in percent
HealthStatus(givebackPct, maxGivebackPct) ==
    IF FracLt(maxGivebackPct, givebackPct) THEN "ALERT"
    ELSE IF FracLt(<<maxGivebackPct[1] * 7, maxGivebackPct[2] * 10>>, givebackPct) THEN "RISK"
    ELSE IF FracLt(<<maxGivebackPct[1] * 3, maxGivebackPct[2] * 10>>, givebackPct) THEN "CAUTION"
    ELSE "HEALTHY"

\* the PositionHealth record of one open position; alertMessage is kept as the
\* kind of message, "undefined" when there is none
PositionHealth(position) ==
    LET maxGivebackPct == <<profitLockGivebackPct[1] * 100, profitLockGivebackPct[2]>>
        holdTimeMinutes == Frac(now - position.entryTime, 60000)
        givebackPct == IF position.peakProfit > 0
                       THEN Frac(position.erosionUsed * 100, position.peakProfit)
                       ELSE <<0, 1>>
        healthStatus == HealthStatus(givebackPct, maxGivebackPct)
        alertMessage ==
            IF healthStatus = "ALERT" THEN "GIVEBACK EXCEEDED"
            ELSE IF healthStatus = "RISK" THEN "High giveback"
            ELSE IF healthStatus = "CAUTION" /\ FracLt(<<240, 1>>, holdTimeMinutes)
                 THEN "Long-held position"
            ELSE "undefined"
    IN [ pair |-> position.pair,
         entryPrice |-> position.entryPrice,
         entryTime |-> position.entryTime,
         currentProfit |-> position.currentProfit,
         profitPct |-> position.profitPct,
         peakProfit |-> position.peakProfit,
         erosionUsed |-> position.erosionUsed,
         erosionCap |-> profitLockGivebackPct,
         erosionPct |-> ToFixed2(givebackPct),
         holdTimeMinutes |-> RoundDiv(holdTimeMinutes[1], holdTimeMinutes[2]),
         healthStatus |-> healthStatus,
         alertMessage |-> alertMessage ]

GetPositionHealth ==
    /\ Call("getPositionHealth", "", <<>>,
            [i \in 1..Len(positions) |-> PositionHealth(positions[i])])
    /\ UNCHANGED <<positions, closedPositions, activityFeed, disk, nextId>>

----------------------------------------------------------------------------
(* The pyramid readiness queries *)

\* variant: without a position the answer depends on the profit alone
IsReadyForL1WithoutPosition(pair, currentProfit, l1TriggerPct) ==
    /\ Call("isReadyForL1", pair, <<currentProfit, l1TriggerPct>>,
            IF ~MapHas(positions, pair) THEN ~FracLt(currentProfit, l1TriggerPct)
            ELSE IF MapGet(positions, pair).pyramidLevelsActivated >= 1 THEN FALSE
            ELSE ~FracLt(currentProfit, l1TriggerPct))
    /\ UNCHANGED <<positions, closedPositions, activityFeed, disk, nextId>>

IsReadyForL1(pair, currentProfit, l1TriggerPct) ==
    /\ Call("isReadyForL1", pair, <<currentProfit, l1TriggerPct>>,
            IF ~MapHas(positions, pair) THEN FALSE
            ELSE IF MapGet(positions, pair).pyramidLevelsActivated >= 1 THEN FALSE
            ELSE ~FracLt(currentProfit, l1TriggerPct))
    /\ UNCHANGED <<positions, closedPositions, activityFeed, disk, nextId>>

IsReadyForL2(pair, currentProfit, l2TriggerPct) ==
    /\ Call("isReadyForL2", pair, <<currentProfit, l2TriggerPct>>,
            IF ~MapHas(positions, pair) THEN FALSE
            ELSE IF MapGet(positions, pair).pyramidLevelsActivated < 1 THEN FALSE
            ELSE IF MapGet(positions, pair).pyramidLevelsActivated >= 2 THEN FALSE
            ELSE ~FracLt(currentProfit, l2TriggerPct))
    /\ UNCHANGED <<positions, closedPositions, activityFeed, disk, nextId>>

----------------------------------------------------------------------------
(* getActivityFeed *)

\* Array.prototype.slice(start): a negative start counts from the end, clamped at
\* the first element; a start of 0 (and -0) is the first element
Slice(array, start) ==
    LET len == Len(array)
        k == IF start < 0
             THEN (IF len + start > 0 THEN len + start ELSE 0)
             ELSE (IF start < len THEN start ELSE len)
    IN SubSeq(array, k + 1, len)

\* Array.prototype.reverse()
Reverse(array) == [i \in 1..Len(array) |-> array[Len(array) + 1 - i]]

GetActivityFeed(limit) ==
    /\ Call("getActivityFeed", "", <<limit>>, Reverse(Slice(activityFeed, -limit)))
    /\ UNCHANGED <<positions, closedPositions, activityFeed, disk, nextId>>

----------------------------------------------------------------------------
(* The environment: the clock advances, the disk breaks and recovers *)

\* Date.now() moves on to a later one of the given instants
Advance(instants) ==
    /\ \E t \in instants : t > now /\ now' = t
    /\ UNCHANGED <<positions, closedPositions, activityFeed, disk, diskWorking, nextId,
                   accountBalance, calls, last>>
    /\ UNCHANGED clientVars

Tick == Advance(Instants)

DiskChange ==
    /\ diskWorking' = ~diskWorking
    /\ UNCHANGED <<positions, closedPositions, activityFeed, disk, now, nextId,
                   accountBalance, calls, last>>
    /\ UNCHANGED clientVars

----------------------------------------------------------------------------
Next ==
    \/ \E pair \in Pairs, e \in EntryPrices, v \in Volumes, s \in StopLosses, t \in ProfitTargets :
          AddPosition(pair, e, v, s, t)
    \/ \E pair \in Pairs, price \in Prices : UpdatePosition(pair, price)
    \/ \E pair \in Pairs, level \in {1, 2}, e \in PyramidPrices, v \in PyramidVolumes,
          c \in Confidences : AddPyramidLevel(pair, level, e, v, c)
    \/ \E pair \in Pairs, e \in ExitPrices, r \in ExitReasons : ClosePosition(pair, e, r)
    \/ ClearAll
    \/ \E pair \in Pairs : CheckErosionCap(pair)
    \/ \E pair \in Pairs, config \in Configs : CheckUnderwaterExit(pair, config)
    \/ \E pair \in Pairs : CheckProfitableCollapse(pair)
    \/ \E pair \in Pairs, price \in CheckPrices : CheckStopLoss(pair, price)
    \/ \E pair \in Pairs, price \in CheckPrices : CheckProfitTarget(pair, price)
    \/ Tick

Spec == Init /\ [][Next]_vars

\* the same ledger on a disk whose writes can fail
NextFaulty ==
    \/ Next
    \/ DiskChange

SpecFaulty == Init /\ [][NextFaulty]_vars

\* the ledger driven through the underwater scenario: one position, refreshed
\* around the loss threshold and asked around the minimum age
NextUnderwater ==
    \/ \E pair \in UnderwaterPairs, e \in UnderwaterEntryPrices, v \in UnderwaterVolumes,
          s \in StopLosses, t \in ProfitTargets : AddPosition(pair, e, v, s, t)
    \/ \E pair \in UnderwaterPairs, price \in UnderwaterPrices : UpdatePosition(pair, price)
    \/ \E pair \in UnderwaterPairs, config \in Configs : CheckUnderwaterExit(pair, config)
    \/ Advance(UnderwaterInstants)

SpecUnderwater == Init /\ [][NextUnderwater]_vars

\* the ledger with its queries: positions are entered (also with an L0 volume
\* of 0), pyramided, refreshed and closed, and the readiness predicates and the
\* dashboard feed are read in between
NextQueries ==
    \/ \E pair \in QueryPairs, e \in EntryPrices, v \in QueryVolumes, s \in StopLosses,
          t \in ProfitTargets : AddPosition(pair, e, v, s, t)
    \/ \E pair \in QueryPairs, price \in QueryPrices : UpdatePosition(pair, price)
    \/ \E pair \in QueryPairs, level \in {1, 2}, e \in PyramidPrices, v \in PyramidVolumes,
          c \in Confidences : AddPyramidLevel(pair, level, e, v, c)
    \/ \E pair \in QueryPairs, e \in ExitPrices, r \in ExitReasons : ClosePosition(pair, e, r)
    \/ \E pair \in QueryPairs, p \in CurrentProfits, t \in L1TriggerPcts :
          IsReadyForL1(pair, p, t)
    \/ \E pair \in QueryPairs, p \in CurrentProfits, t \in L2TriggerPcts :
          IsReadyForL2(pair, p, t)
    \/ \E limit \in Limits : GetActivityFeed(limit)

SpecQueries == Init /\ [][NextQueries]_vars

\* the mutating operations on one pair, on a disk whose writes can fail
NextRetry ==
    \/ \E pair \in QueryPairs, e \in EntryPrices, v \in Volumes, s \in StopLosses,
          t \in ProfitTargets : AddPosition(pair, e, v, s, t)
    \/ \E pair \in QueryPairs, price \in QueryPrices : UpdatePosition(pair, price)
    \/ \E pair \in QueryPairs, level \in {1, 2}, e \in PyramidPrices, v \in PyramidVolumes,
          c \in Confidences : AddPyramidLevel(pair, level, e, v, c)
    \/ \E pair \in QueryPairs, e \in ExitPrices, r \in ExitReasons : ClosePosition(pair, e, r)
    \/ ClearAll
    \/ DiskChange

SpecRetry == Init /\ [][NextRetry]_vars

\* every operation that takes a pair, on two pairs
NextPairs ==
    \/ \E pair \in Pairs, e \in EntryPrices, v \in Volumes, s \in StopLosses, t \in ProfitTargets :
          AddPosition(pair, e, v, s, t)
    \/ \E pair \in Pairs, price \in QueryPrices : UpdatePosition(pair, price)
    \/ \E pair \in Pairs, level \in {1, 2}, e \in PyramidPrices, v \in PyramidVolumes,
          c \in Confidences : AddPyramidLevel(pair, level, e, v, c)
    \/ \E pair \in Pairs, e \in ExitPrices, r \in ExitReasons : ClosePosition(pair, e, r)
    \/ \E pair \in Pairs : CheckErosionCap(pair)
    \/ \E pair \in Pairs, config \in Configs : CheckUnderwaterExit(pair, config)
    \/ \E pair \in Pairs : CheckProfitableCollapse(pair)
    \/ \E pair \in Pairs, price \in CheckPrices : CheckStopLoss(pair, price)
    \/ \E pair \in Pairs, price \in CheckPrices : CheckProfitTarget(pair, price)
    \/ \E pair \in Pairs, p \in ReadyProfits, t \in L1TriggerPcts : IsReadyForL1(pair, p, t)
    \/ \E pair \in Pairs, p \in ReadyProfits, t \in L2TriggerPcts : IsReadyForL2(pair, p, t)
    \/ Tick

SpecPairs == Init /\ [][NextPairs]_vars

\* positions are entered and refreshed, time passes, the dashboard reads their health
NextHealth ==
    \/ \E pair \in Pairs, e \in EntryPrices, v \in Volumes, s \in StopLosses, t \in ProfitTargets :
          AddPosition(pair, e, v, s, t)
    \/ \E pair \in Pairs, price \in HealthPrices : UpdatePosition(pair, price)
    \/ GetPositionHealth
    \/ Advance(HealthInstants)

SpecHealth == Init /\ [][NextHealth]_vars

\* the i-th trade of a history: ETH/USD entered at 3000 x 1 and closed at exitPrice
ClosedTrade(i, exitPrice) ==
    Closed(NewPositionAt(i, 0, "ETH/USD", 3000, 1, 2900, 3200), exitPrice, "Underwater Timeout")

\* the histories of up to MaxClosed such trades
StatsHistories == UNION {[1..n -> StatsExitPrices] : n \in 0..MaxClosed}

\* the feed after these trades: an ENTRY and an EXIT record for each
HistoryFeed(closed) ==
    [k \in 1..(2 * Len(closed)) |->
        LET position == closed[(k + 1) \div 2]
        IN IF k % 2 = 1
           THEN [timestamp |-> 0, pair |-> position.pair, action |-> "ENTRY",
                 details |-> [price |-> position.entryPrice, volume |-> position.volume]]
           ELSE [timestamp |-> 0, pair |-> position.pair, action |-> "EXIT",
                 details |-> [price |-> position.exitPrice, profit |-> position.currentProfit,
                              profitPct |-> position.profitPct,
                              reason |-> position.exitReason]]]

\* a ledger that has entered and closed ETH/USD as one of the given histories
\* tells, each close saved; calls are counted from here
InitAfter(histories) ==
    /\ now = 0
    /\ \E history \in histories :
          closedPositions = [i \in 1..Len(history) |-> ClosedTrade(i, history[i])]
    /\ positions = <<>>
    /\ activityFeed = HistoryFeed(closedPositions)
    /\ disk = IF closedPositions = <<>> THEN NoFile
              ELSE [open |-> <<>>, closed |-> SerializeAll(closedPositions), timestamp |-> 0]
    /\ diskWorking = TRUE
    /\ nextId = Len(closedPositions) + 1
    /\ accountBalance = DefaultAccountBalance
    /\ ClientAtRest
    /\ calls = 0
    /\ last = [op |-> "new", pair |-> "", args |-> <<>>, ret |-> Void]

\* up to MaxClosed trades, closed at any of the exit prices
InitStats == InitAfter(StatsHistories)

\* no trade yet, or a gain followed by a loss
InitRestart == InitAfter({<<>>, <<3060, 2970>>})

\* trades are entered and closed, the balance is updated, the statistics are read
NextStats ==
    \/ \E pair \in QueryPairs, e \in EntryPrices, v \in Volumes, s \in StopLosses,
          t \in ProfitTargets : AddPosition(pair, e, v, s, t)
    \/ \E pair \in QueryPairs, e \in StatsExitPrices, r \in ExitReasons :
          ClosePosition(pair, e, r)
    \/ \E balance \in AccountBalances : UpdateAccountBalance(balance)
    \/ GetPerformanceStats

SpecStats == InitStats /\ [][NextStats]_vars

\* a ledger with a closed history is used, saved by its mutating operations,
\* and constructed anew from the file
NextRestart ==
    \/ \E pair \in Pairs, e \in EntryPrices, v \in Volumes, s \in StopLosses, t \in ProfitTargets :
          AddPosition(pair, e, v, s, t)
    \/ \E pair \in Pairs, price \in QueryPrices : UpdatePosition(pair, price)
    \/ \E pair \in Pairs, level \in {1, 2}, e \in PyramidPrices, v \in PyramidVolumes,
          c \in Confidences : AddPyramidLevel(pair, level, e, v, c)
    \/ \E pair \in Pairs, e \in ExitPrices, r \in ExitReasons : ClosePosition(pair, e, r)
    \/ Restart

SpecRestart == InitRestart /\ [][NextRestart]_vars

\* the ETH/USD position after addPosition at 3000 x 1 and updatePosition at 3060
\* and at 2970: peak 60, current -30, erosion 90
ErodedPosition ==
    Refreshed(Refreshed(NewPositionAt(1, 0, "ETH/USD", 3000, 1, 2900, 3200), 3060), 2970)

\* the record checkErosionCap logs for that position
ErosionAlert ==
    [timestamp |-> 0, pair |-> "ETH/USD", action |-> "EROSION_ALERT",
     details |-> [erosionPct |-> ToFixed2(Frac(ErodedPosition.erosionUsed * 100,
                                               ErodedPosition.peakProfit)),
                  peakProfit |-> ToFixed2(<<ErodedPosition.peakProfit, 1>>),
                  currentProfit |-> ToFixed2(<<ErodedPosition.currentProfit, 1>>)]]

\* the record checkProfitableCollapse logs for that position
CollapseAlert ==
    [timestamp |-> 0, pair |-> "ETH/USD", action |-> "COLLAPSE_ALERT",
     details |-> [peakProfitPct |-> ToFixed2(PeakProfitPct(ErodedPosition)),
                  currentProfitPct |-> ToFixed2(ErodedPosition.profitPct)]]

\* a ledger taken up deep into a run: ETH/USD was entered, refreshed at 3060 and
\* at 2970, and since then checkErosionCap and checkProfitableCollapse have
\* been called in turn, each call logging its alert; calls are counted from here
InitFeed ==
    /\ positions = <<ErodedPosition>>
    /\ closedPositions = <<>>
    /\ activityFeed =
          [i \in 1..(LoggedAlerts + 1) |->
              IF i = 1
              THEN [timestamp |-> 0, pair |-> "ETH/USD", action |-> "ENTRY",
                    details |-> [price |-> 3000, volume |-> 1]]
              ELSE IF i % 2 = 0 THEN ErosionAlert ELSE CollapseAlert]
    /\ disk = [open |-> SerializeAll(<<NewPositionAt(1, 0, "ETH/USD", 3000, 1, 2900, 3200)>>),
               closed |-> <<>>, timestamp |-> 0]
    /\ diskWorking = TRUE
    /\ now = 0
    /\ nextId = 2
    /\ accountBalance = DefaultAccountBalance
    /\ ClientAtRest
    /\ calls = 0
    /\ last = [op |-> "new", pair |-> "", args |-> <<>>, ret |-> Void]

\* the operations that log, and the refresh and the clock between them
NextFeed ==
    \/ \E pair \in QueryPairs, e \in EntryPrices, v \in Volumes, s \in StopLosses, t \in ProfitTargets :
          AddPosition(pair, e, v, s, t)
    \/ \E pair \in QueryPairs, price \in QueryPrices : UpdatePosition(pair, price)
    \/ \E pair \in QueryPairs, level \in {1, 2}, e \in PyramidPrices, v \in PyramidVolumes,
          c \in Confidences : AddPyramidLevel(pair, level, e, v, c)
    \/ \E pair \in QueryPairs, e \in ExitPrices, r \in ExitReasons : ClosePosition(pair, e, r)
    \/ \E pair \in QueryPairs : CheckErosionCap(pair)
    \/ \E pair \in QueryPairs, config \in Configs : CheckUnderwaterExit(pair, config)
    \/ \E pair \in QueryPairs : CheckProfitableCollapse(pair)
    \/ Tick

SpecFeed == InitFeed /\ [][NextFeed]_vars

----------------------------------------------------------------------------
(* IndicatorCalculator: the numbers it computes with *)

\* A number is <<n, d>> in lowest terms with d > 0; <<1, 0>> is Infinity,
\* <<-1, 0>> is -Infinity and <<0, 0>> is NaN. A result beyond MaxValue in
\* magnitude overflows to an infinity, as a double beyond Number.MAX_VALUE
\* does; rounding below that magnitude and the sign of zero are not modelled.
MaxValue == 1000
MaxBars == 5          \* candles in one window

NaN == <<0, 0>>
NegInfinity == <<-1, 0>>
Num(n) == <<n, 1>>
Sign(n) == IF n > 0 THEN 1 ELSE IF n < 0 THEN -1 ELSE 0
AbsInt(n) == IF n < 0 THEN -n ELSE n

RECURSIVE GCD(_, _)
GCD(a, b) == IF b = 0 THEN a ELSE GCD(b, a % b)

Number(n, d) ==
    IF d = 0 THEN <<Sign(n), 0>>
    ELSE LET g == GCD(AbsInt(n), AbsInt(d))
             nn == (Sign(d) * n) \div g
             dd == AbsInt(d) \div g
         IN IF nn > MaxValue * dd THEN Infinity
            ELSE IF -nn > MaxValue * dd THEN NegInfinity
            ELSE <<nn, dd>>

IsNaN(a) == a = NaN

\* a + b
Plus(a, b) ==
    IF IsNaN(a) \/ IsNaN(b) THEN NaN
    ELSE IF a[2] = 0 /\ b[2] = 0 THEN (IF a = b THEN a ELSE NaN)
    ELSE IF a[2] = 0 THEN a
    ELSE IF b[2] = 0 THEN b
    ELSE Number(a[1] * b[2] + b[1] * a[2], a[2] * b[2])

Negated(a) == <<-a[1], a[2]>>

\* a - b
Minus(a, b) == Plus(a, Negated(b))

\* a * b
Times(a, b) == Number(a[1] * b[1], a[2] * b[2])

Reciprocal(a) == IF a[1] < 0 THEN <<-a[2], -a[1]>> ELSE <<a[2], a[1]>>

\* a / b
Over(a, b) == Times(a, Reciprocal(b))

\* a < b and a > b: false when either side is NaN
Less(a, b) ==
    /\ ~IsNaN(a)
    /\ ~IsNaN(b)
    /\ IF a[2] = 0 /\ b[2] = 0 THEN a[1] < b[1] ELSE a[1] * b[2] < b[1] * a[2]

Greater(a, b) == Less(b, a)

MathAbs(a) == <<AbsInt(a[1]), a[2]>>

MathMax(a, b) ==
    IF IsNaN(a) \/ IsNaN(b) THEN NaN ELSE IF Less(a, b) THEN b ELSE a

MathMin(a, b) ==
    IF IsNaN(a) \/ IsNaN(b) THEN NaN ELSE IF Less(b, a) THEN b ELSE a

\* values.slice(0, n).reduce((a, b) => a + b, 0)
RECURSIVE SumFirst(_, _)
SumFirst(values, n) ==
    IF n = 0 THEN Num(0) ELSE Plus(SumFirst(values, n - 1), values[n])

\* values.slice(-n), for 1 <= n
Last(values, n) ==
    IF Len(values) <= n THEN values
    ELSE SubSeq(values, Len(values) - n + 1, Len(values))

----------------------------------------------------------------------------
(* calculateRSI *)

Deltas(closes) == [i \in 1..(Len(closes) - 1) |-> Minus(closes[i + 1], closes[i])]

RECURSIVE SumGains(_, _)
SumGains(deltas, n) ==
    IF n = 0 THEN Num(0)
    ELSE IF Greater(deltas[n], Num(0)) THEN Plus(SumGains(deltas, n - 1), deltas[n])
    ELSE SumGains(deltas, n - 1)

RECURSIVE SumLosses(_, _)
SumLosses(deltas, n) ==
    IF n = 0 THEN Num(0)
    ELSE IF Greater(deltas[n], Num(0)) THEN SumLosses(deltas, n - 1)
    ELSE Plus(SumLosses(deltas, n - 1), MathAbs(deltas[n]))

\* avgGain and avgLoss once deltas[1..n] are taken in, period <= n
RECURSIVE Averages(_, _, _)
Averages(deltas, period, n) ==
    IF n = period
    THEN [avgGain |-> Over(SumGains(deltas, period), Num(period)),
          avgLoss |-> Over(SumLosses(deltas, period), Num(period))]
    ELSE LET prev == Averages(deltas, period, n - 1)
             delta == deltas[n]
             gain == IF Greater(delta, Num(0)) THEN delta ELSE Num(0)
             loss == IF Less(delta, Num(0)) THEN MathAbs(delta) ELSE Num(0)
         IN [avgGain |-> Over(Plus(Times(prev.avgGain, Num(period - 1)), gain),
                              Num(period)),
             avgLoss |-> Over(Plus(Times(prev.avgLoss, Num(period - 1)), loss),
                              Num(period))]

Rsi(closes, period) ==
    IF Len(closes) < period + 1 THEN Num(50)
    ELSE LET avg == Averages(Deltas(closes), period, Len(closes) - 1)
         IN IF avg.avgLoss = Num(0) THEN Num(100)
            ELSE LET rs == Over(avg.avgGain, avg.avgLoss)
                     rsi == Minus(Num(100), Over(Num(100), Plus(Num(1), rs)))
                 IN MathMin(Num(100), MathMax(Num(0), rsi))

----------------------------------------------------------------------------
(* calculateEMA, calculateSMA, calculateVolumeRatio, calculateMomentum *)

RECURSIVE EmaUpTo(_, _, _)
EmaUpTo(closes, period, n) ==
    IF n = period THEN Over(SumFirst(closes, period), Num(period))
    ELSE LET multiplier == Over(Num(2), Num(period + 1))
         IN Plus(Times(closes[n], multiplier),
                 Times(EmaUpTo(closes, period, n - 1), Minus(Num(1), multiplier)))

\* 1 <= period
Ema(closes, period) ==
    IF Len(closes) = 0 THEN Num(0)
    ELSE IF Len(closes) <= period
    THEN Over(SumFirst(closes, Len(closes)), Num(Len(closes)))
    ELSE EmaUpTo(closes, period, Len(closes))

\* 1 <= period
Sma(values, period) ==
    IF Len(values) < period
    THEN Over(SumFirst(values, Len(values)), Num(Len(values)))
    ELSE Over(SumFirst(Last(values, period), period), Num(period))

MinInt(a, b) == IF a < b THEN a ELSE b

VolumeRatio(volumes, period) ==
    IF Len(volumes) = 0 THEN Num(1)
    ELSE LET currentVolume == volumes[Len(volumes)]
             avgVolume == Sma(volumes, MinInt(period, Len(volumes)))
         IN IF Greater(avgVolume, Num(0)) THEN Over(currentVolume, avgVolume)
            ELSE Num(1)

Momentum(closes, period) ==
    IF Len(closes) < period + 1 THEN Num(0)
    ELSE LET currentClose == closes[Len(closes)]
             previousClose == closes[Len(closes) - period]
         IN IF previousClose # Num(0)
            THEN Over(Minus(currentClose, previousClose), previousClose)
            ELSE Num(0)

----------------------------------------------------------------------------
(* calculateMACD *)

Macd(closes, fast, slow, signal) ==
    IF Len(closes) < slow + signal - 1
    THEN [line |-> Num(0), signal |-> Num(0), histogram |-> Num(0)]
    ELSE LET macdLine == Minus(Ema(closes, fast), Ema(closes, slow))
             macdValues ==
                 [k \in 1..(Len(closes) - slow + 1) |->
                     Minus(Ema(SubSeq(closes, 1, slow - 1 + k), fast),
                           Ema(SubSeq(closes, 1, slow - 1 + k), slow))]
             signalLine == Ema(macdValues, signal)
         IN [line |-> macdLine, signal |-> signalLine,
             histogram |-> Minus(macdLine, signalLine)]

----------------------------------------------------------------------------
(* calculateADX *)

\* the bar at index i of the three arrays (the arrays are equally long), 2 <= i
TrueRange(highs, lows, closes, i) ==
    MathMax(MathMax(Minus(highs[i], lows[i]),
                    MathAbs(Minus(highs[i], closes[i - 1]))),
            MathAbs(Minus(lows[i], closes[i - 1])))

PlusDM(highs, lows, i) ==
    LET upMove == Minus(highs[i], highs[i - 1])
        downMove == Minus(lows[i - 1], lows[i])
    IN IF Greater(upMove, downMove) /\ Greater(upMove, Num(0)) THEN upMove
       ELSE Num(0)

MinusDM(highs, lows, i) ==
    LET upMove == Minus(highs[i], highs[i - 1])
        downMove == Minus(lows[i - 1], lows[i])
    IN IF Greater(downMove, upMove) /\ Greater(downMove, Num(0)) THEN downMove
       ELSE Num(0)

\* Wilder's smoothing: smoothed = prev - (prev/period) + current
Wilder(prev, period, current) ==
    Plus(Minus(prev, Over(prev, Num(period))), current)

\* one round of the loop of lines 170-185 on the sums and DX values held in s
SmoothingStep(s, period, tr, plusDM, minusDM) ==
    LET smoothedTR == Wilder(s.smoothedTR, period, tr)
        smoothedPlusDM == Wilder(s.smoothedPlusDM, period, plusDM)
        smoothedMinusDM == Wilder(s.smoothedMinusDM, period, minusDM)
        plusDI == Times(Over(smoothedPlusDM, smoothedTR), Num(100))
        minusDI == Times(Over(smoothedMinusDM, smoothedTR), Num(100))
        diSum == Plus(plusDI, minusDI)
        dx == IF diSum = Num(0) THEN Num(0)
              ELSE Times(Over(MathAbs(Minus(plusDI, minusDI)), diSum), Num(100))
    IN [smoothedTR |-> smoothedTR,
        smoothedPlusDM |-> smoothedPlusDM,
        smoothedMinusDM |-> smoothedMinusDM,
        dxValues |-> IF smoothedTR = Num(0) THEN s.dxValues
                     ELSE Append(s.dxValues, dx)]

\* the sums and the DX values once trueRanges[1..n] are taken in, period <= n
RECURSIVE Smoothed(_, _, _, _, _)
Smoothed(trueRanges, plusDMs, minusDMs, period, n) ==
    IF n = period
    THEN [smoothedTR |-> SumFirst(trueRanges, period),
          smoothedPlusDM |-> SumFirst(plusDMs, period),
          smoothedMinusDM |-> SumFirst(minusDMs, period),
          dxValues |-> <<>>]
    ELSE LET prev == CHOOSE s \in {Smoothed(trueRanges, plusDMs, minusDMs,
                                            period, n - 1)} : TRUE
         IN SmoothingStep(prev, period, trueRanges[n], plusDMs[n], minusDMs[n])

\* 1 <= period
Adx(highs, lows, closes, period) ==
    IF Len(highs) < period * 2 + 1 THEN Num(20)
    ELSE LET bars == 1..(Len(closes) - 1)
             trueRanges == [i \in bars |-> TrueRange(highs, lows, closes, i + 1)]
             plusDMs == [i \in bars |-> PlusDM(highs, lows, i + 1)]
             minusDMs == [i \in bars |-> MinusDM(highs, lows, i + 1)]
             dxValues == Smoothed(trueRanges, plusDMs, minusDMs, period,
                                  Len(trueRanges)).dxValues
         IN IF Len(dxValues) = 0 THEN Num(20)
            ELSE LET recentDX == Last(dxValues, period)
                     adx == Over(SumFirst(recentDX, Len(recentDX)),
                                 Num(Len(recentDX)))
                 IN MathMin(Num(100),
                            MathMax(Num(0), IF IsNaN(adx) THEN Num(20) ELSE adx))

----------------------------------------------------------------------------
(* calculateAllIndicators *)

Column(candles, field) == [i \in DOMAIN candles |-> Num(candles[i][field])]

\* Math.max(...values) and Math.min(...values) of a non-empty array
RECURSIVE MaxOf(_, _)
MaxOf(values, n) ==
    IF n = 1 THEN values[1] ELSE MathMax(MaxOf(values, n - 1), values[n])

RECURSIVE MinOf(_, _)
MinOf(values, n) ==
    IF n = 1 THEN values[1] ELSE MathMin(MinOf(values, n - 1), values[n])

AllIndicators(candles) ==
    IF Len(candles) = 0
    THEN [rsi |-> Num(50),
          macd |-> [line |-> Num(0), signal |-> Num(0), histogram |-> Num(0)],
          adx |-> Num(20),
          volumeRatio |-> Num(1),
          momentum1h |-> Num(0),
          momentum4h |-> Num(0),
          recentHigh |-> Num(0),
          recentLow |-> Num(0),
          ema200 |-> Num(0)]
    ELSE LET closes == Column(candles, "close")
             highs == Column(candles, "high")
             lows == Column(candles, "low")
             volumes == Column(candles, "volume")
             recentCandles == Last(candles, 20)
             recentHighs == Column(recentCandles, "high")
             recentLows == Column(recentCandles, "low")
         IN [rsi |-> Rsi(closes, 14),
             macd |-> Macd(closes, 12, 26, 9),
             adx |-> Adx(highs, lows, closes, 14),
             volumeRatio |-> VolumeRatio(volumes, 20),
             momentum1h |-> Momentum(closes, MinInt(4, Len(closes) - 1)),
             momentum4h |-> Momentum(closes, MinInt(16, Len(closes) - 1)),
             recentHigh |-> MaxOf(recentHighs, Len(recentHighs)),
             recentLow |-> MinOf(recentLows, Len(recentLows)),
             ema200 |-> Ema(closes, 200)]

----------------------------------------------------------------------------
(* The indicators applied to a window of candles *)

CandleKinds ==
    { [high |-> 2, low |-> 0, close |-> 1, volume |-> 1],
      [high |-> 3, low |-> 1, close |-> 2, volume |-> 3],
      [high |-> MaxValue, low |-> 0, close |-> MaxValue, volume |-> 0],
      [high |-> 0, low |-> 0, close |-> 0, volume |-> 0] }
Windows == UNION { [1..n -> CandleKinds] : n \in 0..MaxBars }
Periods == {1, 2, 3}
MacdPeriods == { <<1, 2, 2>>, <<2, 3, 2>> }

\* the window the caller holds; each indicator is computed from its columns
InitIndicators ==
    /\ positions = <<>>
    /\ closedPositions = <<>>
    /\ activityFeed = <<>>
    /\ disk = NoFile
    /\ diskWorking = TRUE
    /\ now = 0
    /\ nextId = 1
    /\ accountBalance = DefaultAccountBalance
    /\ ClientAtRest
    /\ calls = 0
    /\ \E candles \in Windows :
          last = [op |-> "candles", pair |-> "", args |-> <<candles>>, ret |-> Void]

Indicator(op, args, ret) ==
    /\ last.op = "candles"
    /\ Call(op, "", args, ret)
    /\ UNCHANGED <<positions, closedPositions, activityFeed, disk, nextId>>

Closes == Column(last.args[1], "close")
Highs == Column(last.args[1], "high")
Lows == Column(last.args[1], "low")
VolumesOf == Column(last.args[1], "volume")

CalculateRSI(period) ==
    Indicator("calculateRSI", <<Closes, period>>, Rsi(Closes, period))

CalculateMACD(fast, slow, signal) ==
    Indicator("calculateMACD", <<Closes, fast, slow, signal>>,
              Macd(Closes, fast, slow, signal))

CalculateADX(period) ==
    Indicator("calculateADX", <<Highs, Lows, Closes, period>>,
              Adx(Highs, Lows, Closes, period))

CalculateEMA(period) ==
    Indicator("calculateEMA", <<Closes, period>>, Ema(Closes, period))

CalculateSMA(period) ==
    Indicator("calculateSMA", <<VolumesOf, period>>, Sma(VolumesOf, period))

CalculateVolumeRatio(period) ==
    Indicator("calculateVolumeRatio", <<VolumesOf, period>>,
              VolumeRatio(VolumesOf, period))

CalculateMomentum(period) ==
    Indicator("calculateMomentum", <<Closes, period>>, Momentum(Closes, period))

CalculateAllIndicators ==
    Indicator("calculateAllIndicators", last.args, AllIndicators(last.args[1]))

NextIndicators ==
    \/ \E period \in Periods : CalculateRSI(period)
    \/ \E periods \in MacdPeriods : CalculateMACD(periods[1], periods[2], periods[3])
    \/ \E period \in Periods : CalculateADX(period)
    \/ \E period \in Periods : CalculateEMA(period)
    \/ \E period \in Periods : CalculateSMA(period)
    \/ \E period \in Periods : CalculateVolumeRatio(period)
    \/ \E period \in Periods : CalculateMomentum(period)
    \/ CalculateAllIndicators

SpecIndicators == InitIndicators /\ [][NextIndicators]_vars

----------------------------------------------------------------------------
(* BinanceClient.withRetry and withTimeout *)

\* Each withRetry call under way is a record: where it stands (pc), its retries
\* argument, the loop variable attempt, the instant its pending timer or
\* response is due, how often fn was invoked, the status of each attempt so
\* far (200 for a resolved promise) and the instant the last attempt failed.
\* The code between two awaits runs without interruption; every step below is
\* one such stretch.

RetryArguments == {-1, 0, 1, 2}
Statuses == {200, 401, 403, 429, 500}
Latencies == {0, 50}
RequestTimeout == 408

\* 2 to the power n
RECURSIVE Pow2(_)
Pow2(n) == IF n = 0 THEN 1 ELSE 2 * Pow2(n - 1)

InitClient ==
    /\ positions = <<>>
    /\ closedPositions = <<>>
    /\ activityFeed = <<>>
    /\ disk = NoFile
    /\ diskWorking = TRUE
    /\ now = 1000
    /\ nextId = 1
    /\ accountBalance = DefaultAccountBalance
    /\ calls = 0
    /\ last = [op |-> "new", pair |-> "", args |-> <<>>, ret |-> Void]
    /\ ClientAtRest

\* fn() is invoked: this.lastCallTime = Date.now() and withTimeout(fn(), TIMEOUT_MS);
\* the response will be there after some latency, or never
AttemptStarted(request) ==
    { [request EXCEPT !.pc = "flight",
                      !.invoked = @ + 1,
                      !.due = now + latency,
                      !.timeout = now + TIMEOUT_MS] : latency \in Latencies \cup {2 * TIMEOUT_MS} }

\* the last two attempts, with the one started now
Starting == IF started = <<>> THEN <<now>> ELSE <<started[Len(started)], now>>

\* the top of the loop body up to its first await: wait out the rest of the
\* request delay, or start the attempt at once
LoopTop(r, request) ==
    LET timeSinceLastCall == now - lastCallTime
    IN IF timeSinceLastCall < REQUEST_DELAY_MS
       THEN /\ requests' = [requests EXCEPT ![r] =
                              [request EXCEPT !.pc = "delay",
                                              !.due = now + REQUEST_DELAY_MS - timeSinceLastCall]]
            /\ UNCHANGED <<lastCallTime, started>>
       ELSE /\ \E flying \in AttemptStarted(request) :
                  requests' = [requests EXCEPT ![r] = flying]
            /\ lastCallTime' = now
            /\ started' = Starting

ClientStep ==
    UNCHANGED <<positions, closedPositions, activityFeed, disk, diskWorking, nextId,
                accountBalance, last, credentials, symbolInfoCache, orders, exchange>>

\* withRetry(fn, retries) is called
WithRetry(r, retries) ==
    /\ requests[r].pc = "idle"
    /\ calls' = calls + 1
    /\ IF 0 <= retries
       THEN LoopTop(r, [pc |-> "top", retries |-> retries, attempt |-> 0, due |-> 0,
                        timeout |-> 0, invoked |-> 0, statuses |-> <<>>, failedAt |-> 0])
       ELSE /\ requests' = [requests EXCEPT ![r] =
                              [pc |-> "thrown", retries |-> retries, attempt |-> 0, due |-> 0,
                               timeout |-> 0, invoked |-> 0, statuses |-> <<>>, failedAt |-> 0]]
            /\ UNCHANGED <<lastCallTime, started>>
    /\ UNCHANGED now
    /\ ClientStep

\* the timer of the request delay fires
DelayOver(r) ==
    /\ requests[r].pc = "delay"
    /\ requests[r].due <= now
    /\ \E flying \in AttemptStarted(requests[r]) :
          requests' = [requests EXCEPT ![r] = flying]
    /\ lastCallTime' = now
    /\ started' = Starting
    /\ UNCHANGED <<now, calls>>
    /\ ClientStep

\* variant: a rate-limited request is retried like any other failure
SettledRetryingRateLimit(request, status) ==
    LET seen == [request EXCEPT !.statuses = Append(@, status), !.failedAt = now]
    IN IF status = 200 THEN [seen EXCEPT !.pc = "returned"]
       ELSE IF status = 401 \/ status = 403 THEN [seen EXCEPT !.pc = "thrown"]
       ELSE IF request.attempt = request.retries THEN [seen EXCEPT !.pc = "thrown"]
       ELSE [seen EXCEPT !.pc = "backoff", !.due = now + Pow2(request.attempt) * 1000]

\* the attempt is settled with a status: return, the catch block, or the backoff
Settled(request, status) ==
    LET seen == [request EXCEPT !.statuses = Append(@, status), !.failedAt = now]
    IN IF status = 200 THEN [seen EXCEPT !.pc = "returned"]
       ELSE IF status = 429 THEN [seen EXCEPT !.pc = "thrown"]
       ELSE IF status = 401 \/ status = 403 THEN [seen EXCEPT !.pc = "thrown"]
       ELSE IF request.attempt = request.retries THEN [seen EXCEPT !.pc = "thrown"]
       ELSE [seen EXCEPT !.pc = "backoff", !.due = now + Pow2(request.attempt) * 1000]

\* the promise of fn() settles before the timeout
Response(r, status) ==
    /\ requests[r].pc = "flight"
    /\ requests[r].due <= now
    /\ requests[r].due < requests[r].timeout
    /\ requests' = [requests EXCEPT ![r] = Settled(requests[r], status)]
    /\ UNCHANGED <<now, lastCallTime, started, calls>>
    /\ ClientStep

\* withTimeout rejects with status 408
TimedOut(r) ==
    /\ requests[r].pc = "flight"
    /\ requests[r].timeout <= now
    /\ requests[r].timeout <= requests[r].due
    /\ requests' = [requests EXCEPT ![r] = Settled(requests[r], RequestTimeout)]
    /\ UNCHANGED <<now, lastCallTime, started, calls>>
    /\ ClientStep

\* the backoff timer fires: attempt++ and the loop body again
BackoffOver(r) ==
    /\ requests[r].pc = "backoff"
    /\ requests[r].due <= now
    /\ LoopTop(r, [requests[r] EXCEPT !.attempt = @ + 1])
    /\ UNCHANGED <<now, calls>>
    /\ ClientStep

\* the caller has the result; the slot is free for another request
Forgotten(r) ==
    /\ requests[r].pc \in {"returned", "thrown"}
    /\ requests' = [requests EXCEPT ![r] = Idle]
    /\ UNCHANGED <<now, lastCallTime, started, calls>>
    /\ ClientStep

\* the instant at which something pending of request r happens
Pending(r) ==
    IF requests[r].pc \in {"delay", "backoff"} THEN {requests[r].due}
    ELSE IF requests[r].pc = "flight"
         THEN {IF requests[r].due < requests[r].timeout THEN requests[r].due
               ELSE requests[r].timeout}
    ELSE {}

\* time passes until the next timer or response is due
Elapse ==
    LET pending == UNION {Pending(r) : r \in Requests}
    IN /\ pending # {}
       /\ \A t \in pending : now < t
       /\ now' = CHOOSE t \in pending : \A u \in pending : t <= u
       /\ UNCHANGED <<lastCallTime, requests, started, calls>>
       /\ ClientStep

\* one request at a time, with each retries argument
NextWithRetry ==
    \/ \E retries \in RetryArguments : calls < MaxRetryCalls /\ WithRetry(1, retries)
    \/ DelayOver(1)
    \/ \E status \in Statuses : Response(1, status)
    \/ TimedOut(1)
    \/ BackoffOver(1)
    \/ Forgotten(1)
    \/ Elapse

SpecWithRetry == InitClient /\ [][NextWithRetry]_vars /\ WF_vars(NextWithRetry)

\* requests that overlap, as the two of getTicker's Promise.all and any other
\* client call made meanwhile; each is a withRetry call with the default retries
OverlapStatuses == {200, 429}

NextOverlap ==
    \/ \E r \in Requests :
          /\ calls < MaxRequests
          /\ \A earlier \in 1..(r - 1) : requests[earlier].pc # "idle"
          /\ WithRetry(r, MAX_RETRIES)
    \/ \E r \in Requests : DelayOver(r)
    \/ \E r \in Requests, status \in OverlapStatuses : Response(r, status)
    \/ \E r \in Requests : TimedOut(r)
    \/ \E r \in Requests : BackoffOver(r)
    \/ Elapse

SpecOverlap == InitClient /\ [][NextOverlap]_vars

\* ---- placeOrder, with getSymbolInfo and roundQuantityToStepSize ----

\* quantities are counted in units of 1e-9; toFixed(8) keeps eight decimals,
\* rounding to the nearest
ToFixed8(quantity) == ((quantity + 5) \div 10) * 10

MaxOrders == 2        \* placeOrder calls

OrderPairs == {"ETH/USD", "btc/usd"}
Sides == {"buy", "sell"}
OrderVolumes == {6, 500000, 1500000}
OrderIds == {0, 28}
Listings == {NotListed,
             [listed |-> TRUE, lotSize |-> FALSE],
             [listed |-> TRUE, lotSize |-> TRUE, minQty |-> 1000000, stepSize |-> 1000000]}
NoCredentials == [apiKey |-> "", apiSecret |-> "test-secret"]
Null == "null"
NotRounded == [rounded |-> FALSE]
NoRun == [invoked |-> 0, status |-> 0]

ToUpperCase(string) ==
    CASE string = "btc/usd" -> "BTC/USD"
      [] string = "buy" -> "BUY"
      [] string = "sell" -> "SELL"
      [] OTHER -> string

StringOf(orderId) == CASE orderId = 28 -> "28"

mapSymbol(pair) ==
    LET normalized == ToUpperCase(pair)
    IN CASE normalized = "BTC/USD" -> "BTCUSD"
         [] normalized = "ETH/USD" -> "ETHUSD"

\* what a withRetry call can have done when it is over: the number of times the
\* request was sent and the status of the last attempt; every attempt before
\* the last failed with an error that is retried. The request is served at
\* once, or refused at once, or fails every time
WithRetryRuns ==
    {[invoked |-> 1, status |-> 200],
     [invoked |-> 1, status |-> 429],
     [invoked |-> MAX_RETRIES + 1, status |-> 500]}

\* the instants at which the attempts of a run start when every response is
\* immediate: the first after the rest of the request delay, the next ones
\* after the backoffs
RunStarts(t, l, run) ==
    LET first == IF t - l < REQUEST_DELAY_MS THEN l + REQUEST_DELAY_MS ELSE t
    IN [attempt \in 1..run.invoked |-> first + (Pow2(attempt - 1) - 1) * 1000]

\* Date.now() and this.lastCallTime after the attempts started at these instants
ClockAfter(t, l, starts) ==
    IF starts = <<>> THEN <<t, l>> ELSE <<starts[Len(starts)], starts[Len(starts)]>>

LastTwo(starts) ==
    IF Len(starts) <= 2 THEN starts ELSE SubSeq(starts, Len(starts) - 1, Len(starts))

\* getSymbolInfo(symbol) with the run of its exchangeInfo request: the info, or
\* NotCached for null, and whether a request was made
getSymbolInfo(symbol, run) ==
    IF symbolInfoCache[symbol].cached
    THEN [info |-> symbolInfoCache[symbol], run |-> NoRun]
    ELSE IF run.status = 200 /\ exchange[symbol].listed
         THEN LET lotSizeFilter == exchange[symbol].lotSize
              IN [info |-> [cached |-> TRUE,
                            minQty |-> IF lotSizeFilter THEN exchange[symbol].minQty ELSE 0,
                            stepSize |-> IF lotSizeFilter THEN exchange[symbol].stepSize ELSE 0],
                  run |-> run]
         ELSE [info |-> NotCached, run |-> run]

roundQuantityToStepSize(quantity, stepSize, minQty) ==
    IF stepSize = 0
    THEN NotRounded
    ELSE LET rounded == (quantity \div stepSize) * stepSize
         IN IF rounded < minQty
            THEN NotRounded
            ELSE [rounded |-> TRUE, quantity |-> rounded]

\* placeOrder(pair, side, volume), orderType 'MARKET', as one step; the
\* environment gives the run of the exchangeInfo request, the run of the order
\* request and the orderId of the response. signedRequest does not await
\* syncTime: lastTimeSync is 0 and the clock is below TIME_SYNC_INTERVAL_MS
PlaceOrder(pair, side, volume, infoRun, orderRun, orderId) ==
    LET symbol == mapSymbol(pair)
        asked == getSymbolInfo(symbol, infoRun)
        symbolInfo == asked.info
        rounded == IF symbolInfo.cached
                   THEN roundQuantityToStepSize(volume, symbolInfo.stepSize, symbolInfo.minQty)
                   ELSE [rounded |-> TRUE, quantity |-> volume]
        infoStarts == RunStarts(now, lastCallTime, asked.run)
        afterInfo == ClockAfter(now, lastCallTime, infoStarts)
        orderStarts == RunStarts(afterInfo[1], afterInfo[2], orderRun)
        params == [symbol |-> symbol,
                   side |-> ToUpperCase(side),
                   type |-> "MARKET",
                   quantity |-> ToFixed8(rounded.quantity),
                   volume |-> volume]
        Returns(ret) == last' = [op |-> "placeOrder", pair |-> pair,
                                 args |-> [side |-> side, volume |-> volume], ret |-> ret]
    IN /\ calls' = calls + 1
       /\ UNCHANGED <<positions, closedPositions, activityFeed, disk, diskWorking, nextId,
                      accountBalance, credentials, requests, exchange>>
       /\ IF credentials.apiKey = "" \/ credentials.apiSecret = ""
          THEN /\ Returns(Null)
               /\ UNCHANGED <<now, lastCallTime, started, symbolInfoCache, orders>>
          ELSE /\ symbolInfoCache' = [symbolInfoCache EXCEPT ![symbol] = symbolInfo]
               /\ IF ~rounded.rounded
                  THEN /\ Returns(Null)
                       /\ now' = afterInfo[1]
                       /\ lastCallTime' = afterInfo[2]
                       /\ started' = LastTwo(started \o infoStarts)
                       /\ UNCHANGED orders
                  ELSE /\ Returns(IF orderRun.status = 200 /\ orderId # 0
                                  THEN StringOf(orderId)
                                  ELSE Null)
                       /\ now' = orderStarts[Len(orderStarts)]
                       /\ lastCallTime' = orderStarts[Len(orderStarts)]
                       /\ started' = LastTwo(started \o infoStarts \o orderStarts)
                       /\ orders' = orders \o [attempt \in 1..orderRun.invoked |-> params]

InitOrders ==
    /\ positions = <<>>
    /\ closedPositions = <<>>
    /\ activityFeed = <<>>
    /\ disk = NoFile
    /\ diskWorking = TRUE
    /\ now = 1000
    /\ nextId = 1
    /\ accountBalance = DefaultAccountBalance
    /\ calls = 0
    /\ last = [op |-> "new", pair |-> "", args |-> <<>>, ret |-> Void]
    /\ \E given \in {TestCredentials, NoCredentials} :
          Constructed(given.apiKey, given.apiSecret)
    /\ exchange \in [Symbols -> Listings]

NextOrders ==
    \E pair \in OrderPairs, side \in Sides, volume \in OrderVolumes, infoRun \in WithRetryRuns,
       orderRun \in WithRetryRuns, orderId \in OrderIds :
          /\ calls < MaxOrders
          /\ PlaceOrder(pair, side, volume, infoRun, orderRun, orderId)

SpecOrders == InitOrders /\ [][NextOrders]_vars

----------------------------------------------------------------------------
(* Properties *)

\* this step is a call of op
IsCall(op) == calls' = calls + 1 /\ last'.op = op

\* the position a call was about, before and after the call
Before == MapGet(positions, last'.pair)
After == MapGet(positions', last'.pair)

OnePerPair ==
    \A i, j \in 1..Len(positions) : positions[i].pair = positions[j].pair => i = j

\* C1: there is at most one open position per pair, and addPosition for a pair
\* that already has an open position leaves the open positions, the closed
\* history and the activity feed as they were.
C1_DuplicateEntryIgnored ==
    [][ /\ OnePerPair'
        /\ (IsCall("addPosition") /\ MapHas(positions, last'.pair))
              => /\ positions' = positions
                 /\ closedPositions' = closedPositions
                 /\ activityFeed' = activityFeed ]_vars

\* a refused addPosition: the pair's position is older than the call
C1_Witness ==
    /\ last.op = "addPosition"
    /\ MapHas(positions, last.pair)
    /\ MapGet(positions, last.pair).entryTime < now
    /\ Len(positions) = 2

Level2AfterLevel1 ==
    \A i \in 1..Len(positions) :
        \A k \in 1..Len(positions[i].pyramidLevels) :
            positions[i].pyramidLevels[k].level = 2
               => \E j \in 1..(k-1) : positions[i].pyramidLevels[j].level = 1

\* C2: addPyramidLevel(pair, 2, ...) on an open position without a level-1
\* entry returns false and mutates nothing, so a position holding a level-2
\* entry always holds a level-1 entry added before it.
C2_Level2NeedsLevel1 ==
    [][ /\ (IsCall("addPyramidLevel") /\ last'.args[1] = 2
              /\ MapHas(positions, last'.pair) /\ ~HasLevel(Before, 1))
              => /\ last'.ret = FALSE
                 /\ UNCHANGED <<positions, closedPositions, activityFeed, disk>>
        /\ Level2AfterLevel1' ]_vars

AtMostOnePerLevel ==
    \A i \in 1..Len(positions) :
        \A k, m \in 1..Len(positions[i].pyramidLevels) :
            positions[i].pyramidLevels[k].level = positions[i].pyramidLevels[m].level => k = m

\* C3: an open position never holds two entries of the same pyramid level,
\* and addPyramidLevel for a level the position already holds returns false.
C3_OneEntryPerLevel ==
    [][ /\ AtMostOnePerLevel'
        /\ (IsCall("addPyramidLevel") /\ MapHas(positions, last'.pair)
              /\ HasLevel(Before, last'.args[1]))
              => last'.ret = FALSE ]_vars

\* a duplicate level refused while the position holds a single level
C3_Witness ==
    /\ last.op = "addPyramidLevel"
    /\ last.ret = FALSE
    /\ MapHas(positions, last.pair)
    /\ MapGet(positions, last.pair).pyramidLevelsActivated = 1
    /\ HasLevel(MapGet(positions, last.pair), last.args[1])

\* C4: while a position stays open its peakProfit never decreases, whatever
\* the step (updatePosition at any price, addPyramidLevel, ...), and after an
\* updatePosition its peakProfit is at least its currentProfit.
C4_PeakMonotone ==
    [][ /\ \A pair \in Pairs :
              (/\ MapHas(positions, pair)
               /\ MapHas(positions', pair)
               /\ MapGet(positions', pair).id = MapGet(positions, pair).id)
                 => MapGet(positions', pair).peakProfit >= MapGet(positions, pair).peakProfit
        /\ (IsCall("updatePosition") /\ MapHas(positions, last'.pair))
              => After.peakProfit >= After.currentProfit ]_vars

\* a pyramided position refreshed below its peak
C4_Witness ==
    /\ last.op = "updatePosition"
    /\ MapHas(positions, last.pair)
    /\ MapGet(positions, last.pair).pyramidLevels # <<>>
    /\ MapGet(positions, last.pair).peakProfit > MapGet(positions, last.pair).currentProfit
    /\ MapGet(positions, last.pair).peakProfit > 0

ErosionNonNegative ==
    \A i \in 1..Len(positions) : positions[i].erosionUsed >= 0

\* C5: erosionUsed of an open position is never negative, and an
\* updatePosition whose recomputed currentProfit strictly exceeds the previous
\* peakProfit leaves erosionUsed = 0 and peakProfit = the new currentProfit.
C5_ErosionResetOnNewPeak ==
    [][ /\ ErosionNonNegative'
        /\ (IsCall("updatePosition") /\ MapHas(positions, last'.pair)
              /\ After.currentProfit > Before.peakProfit)
              => /\ After.erosionUsed = 0
                 /\ After.peakProfit = After.currentProfit ]_vars

\* the first refresh of a fresh position, above its entry price
C5_Witness ==
    /\ last.op = "updatePosition"
    /\ calls = 2
    /\ MapHas(positions, last.pair)
    /\ MapGet(positions, last.pair).peakProfit = 60
    /\ MapGet(positions, last.pair).currentProfit = 60
    /\ MapGet(positions, last.pair).erosionUsed = 0
    /\ last.args = <<3060>>

\* C6: closePosition on an open pair removes the pair from the open set, drops
\* the open count by one, grows the closed history by one, and leaves that
\* position exactly once in the history, closed and stamped with the exit
\* price, time and reason; closePosition on a pair that is not open changes
\* nothing.
C6_ClosedExactlyOnce ==
    [][ /\ (IsCall("closePosition") /\ MapHas(positions, last'.pair))
              => /\ ~MapHas(positions', last'.pair)
                 /\ Len(OpenPositions') = Len(OpenPositions) - 1
                 /\ Len(closedPositions') = Len(closedPositions) + 1
                 /\ Cardinality({i \in 1..Len(closedPositions') :
                                    closedPositions'[i].id = Before.id}) = 1
                 /\ \A i \in 1..Len(closedPositions') :
                       closedPositions'[i].id = Before.id
                          => /\ closedPositions'[i].status = "closed"
                             /\ {"exitPrice", "exitTime", "exitReason"}
                                   \subseteq DOMAIN closedPositions'[i]
                             /\ closedPositions'[i].exitPrice = last'.args[1]
                             /\ closedPositions'[i].exitTime = now
                             /\ closedPositions'[i].exitReason = last'.args[2]
        /\ (IsCall("closePosition") /\ ~MapHas(positions, last'.pair))
              => UNCHANGED <<positions, closedPositions, activityFeed, disk>> ]_vars

\* the same pair entered and closed twice: two distinct closed positions
C6_Witness ==
    /\ last.op = "closePosition"
    /\ calls = 4
    /\ Len(closedPositions) = 2
    /\ closedPositions[1].pair = last.pair
    /\ closedPositions[2].pair = last.pair
    /\ closedPositions[1].id # closedPositions[2].id
    /\ ~MapHas(positions, last.pair)

ClosedIds == {closedPositions[i].id : i \in 1..Len(closedPositions)}

\* C7: every step keeps the closed history as a prefix of the history after
\* it, never puts a closed position back into the open set, and an addPosition
\* that is accepted creates a new position with the initial fields (no profit,
\* no peak, no erosion, no pyramid level, no exit stamp).
C7_ClosedHistoryAppendOnly ==
    [][ /\ Len(closedPositions') >= Len(closedPositions)
        /\ SubSeq(closedPositions', 1, Len(closedPositions)) = closedPositions
        /\ \A i \in 1..Len(positions') : positions'[i].id \notin ClosedIds
        /\ (IsCall("addPosition") /\ ~MapHas(positions, last'.pair))
              => /\ MapHas(positions', last'.pair)
                 /\ After.id \notin ClosedIds
                 /\ After.status = "open"
                 /\ After.entryPrice = last'.args[1]
                 /\ After.volume = last'.args[2]
                 /\ After.totalVolume = last'.args[2]
                 /\ After.entryTime = now
                 /\ After.currentProfit = 0
                 /\ After.peakProfit = 0
                 /\ After.erosionUsed = 0
                 /\ After.pyramidLevels = <<>>
                 /\ After.pyramidLevelsActivated = 0
                 /\ DOMAIN After \cap {"exitPrice", "exitTime", "exitReason"} = {} ]_vars

\* a pair entered again after its position was closed
C7_Witness ==
    /\ last.op = "addPosition"
    /\ calls = 3
    /\ Len(closedPositions) = 1
    /\ closedPositions[1].pair = last.pair
    /\ MapHas(positions, last.pair)
    /\ MapGet(positions, last.pair).id # closedPositions[1].id

RiskGates ==
    {"checkErosionCap", "checkUnderwaterExit", "checkProfitableCollapse",
     "checkStopLoss", "checkProfitTarget"}

MutatingOps ==
    {"addPosition", "updatePosition", "addPyramidLevel", "closePosition", "clearAll"}

\* C9: after a mutating ledger method has changed position state with a
\* working disk, the persisted snapshot's open and closed sets equal the
\* in-memory open and closed sets.
C9_WriteThrough ==
    [][ (/\ calls' = calls + 1
         /\ last'.op \in MutatingOps
         /\ diskWorking
         /\ (positions' # positions \/ closedPositions' # closedPositions))
           => /\ disk' # NoFile
              /\ disk'.open = SerializeAll(positions')
              /\ disk'.closed = SerializeAll(closedPositions') ]_vars

ScenarioPosition(position) ==
    /\ position.pair = "ETH/USD"
    /\ position.entryPrice = 3000
    /\ position.volume = 1
    /\ position.stopLoss = 2900
    /\ position.profitTarget = 3200
    /\ position.pyramidLevels = <<>>

Figures(position, currentProfit, peakProfit, erosionUsed) ==
    /\ position.currentProfit = currentProfit
    /\ position.peakProfit = peakProfit
    /\ position.erosionUsed = erosionUsed

\* the three steps of the ETH/USD scenario, with the verdict of checkErosionCap
ScenarioSteps(verdict) ==
    /\ (IsCall("updatePosition") /\ last'.args = <<3015>> /\ MapHas(positions, last'.pair)
          /\ ScenarioPosition(Before) /\ Figures(Before, 0, 0, 0))
          => Figures(After, 15, 15, 0)
    /\ (IsCall("updatePosition") /\ last'.args = <<3005>> /\ MapHas(positions, last'.pair)
          /\ ScenarioPosition(Before) /\ Figures(Before, 15, 15, 0))
          => Figures(After, 5, 15, 10)
    /\ (IsCall("checkErosionCap") /\ MapHas(positions, last'.pair)
          /\ ScenarioPosition(Before) /\ Figures(Before, 5, 15, 10))
          => last'.ret = verdict

\* C10 as stated: ETH/USD entered at 3000 x 1; updatePosition at 3015 gives
\* currentProfit 15, peakProfit 15, erosionUsed 0; updatePosition at 3005 then
\* gives 5, 15, 10; checkErosionCap with max giveback 0.5 returns true.
C10_ScenarioAsStated == [][ScenarioSteps(TRUE)]_vars

\* C10 amended: the same scenario and the same figures, but checkErosionCap
\* returns false: the peak of 15 is 0.5% of the cost basis of 3000, below the
\* 1.0% floor under which the erosion check is skipped.
C10_ScenarioBelowFloor == [][ScenarioSteps(FALSE)]_vars

\* the scenario run to its end: entry, 3015, 3005, checkErosionCap
C10_Witness ==
    /\ last.op = "checkErosionCap"
    /\ last.ret = FALSE
    /\ calls = 4
    /\ MapHas(positions, last.pair)
    /\ ScenarioPosition(MapGet(positions, last.pair))
    /\ Figures(MapGet(positions, last.pair), 5, 15, 10)

\* the cost basis of a position, summed over L0 and its pyramid levels
CostBasis(position) ==
    LET levels == position.pyramidLevels
        cost[i \in 0..Len(levels)] ==
            IF i = 0 THEN position.entryPrice * position.volume
            ELSE cost[i - 1] + levels[i].entryPrice * levels[i].volume
    IN cost[Len(levels)]

\* the feed after the call is the feed before it plus one record of this action for the pair
OneRecordAppended(action) ==
    /\ Len(activityFeed') = Len(activityFeed) + 1
    /\ SubSeq(activityFeed', 1, Len(activityFeed)) = activityFeed
    /\ activityFeed'[Len(activityFeed')].action = action
    /\ activityFeed'[Len(activityFeed')].pair = last'.pair

\* C11: checkErosionCap(pair) returns true if and only if the position exists,
\* peakProfit > 0, peakProfit is at least 1.0% of the cost basis over L0 and all
\* pyramid levels, and erosionUsed / peakProfit is strictly greater than the
\* max-giveback fraction of 0.5 (a ratio equal to it does not trigger); it
\* appends exactly one EROSION_ALERT record when it returns true and none when
\* it returns false.
C11_ErosionCapVerdict ==
    [][ IsCall("checkErosionCap")
          => /\ last'.ret = (/\ MapHas(positions, last'.pair)
                             /\ Before.peakProfit > 0
                             /\ Before.peakProfit * 100 >= CostBasis(Before)
                             /\ Before.erosionUsed * 2 > Before.peakProfit)
             /\ last'.ret = TRUE => OneRecordAppended("EROSION_ALERT")
             /\ last'.ret = FALSE => UNCHANGED activityFeed ]_vars

\* checkErosionCap asked at the edge: the peak is exactly 1.0% of the cost
\* basis and exactly half of it has been given back
C11_Witness ==
    /\ last.op = "checkErosionCap"
    /\ last.ret = FALSE
    /\ MapHas(positions, last.pair)
    /\ MapGet(positions, last.pair).peakProfit * 100 = CostBasis(MapGet(positions, last.pair))
    /\ MapGet(positions, last.pair).erosionUsed * 2 = MapGet(positions, last.pair).peakProfit

\* the position of the underwater scenario, refreshed at 99.1 and nowhere above its entry
UnderwaterScenario(position) ==
    /\ position.entryPrice = 1000
    /\ position.volume = 10
    /\ position.pyramidLevels = <<>>
    /\ position.currentProfit = (991 - 1000) * 10
    /\ position.peakProfit = 0

C13_SameVerdictAsScripts ==
    [][ (IsCall("checkUnderwaterExit") /\ MapHas(positions, last'.pair)
           /\ Before.status = "open")
          => last'.ret = shouldExit(Before, last'.args[1]) ]_vars

\* a call of checkProfitableCollapse returns true, and appends one
\* COLLAPSE_ALERT, exactly when the position exists, its peak is at least 0.5%
\* of its cost basis and its current profit has collapsed
CollapseVerdict(collapsed(_)) ==
    IsCall("checkProfitableCollapse")
      => /\ last'.ret = (/\ MapHas(positions, last'.pair)
                         /\ Before.peakProfit * 200 >= CostBasis(Before)
                         /\ collapsed(Before.currentProfit))
         /\ last'.ret = TRUE => OneRecordAppended("COLLAPSE_ALERT")
         /\ last'.ret = FALSE => UNCHANGED activityFeed

BreakevenOrWorse(currentProfit) == currentProfit <= 0
Underwater(currentProfit) == currentProfit < 0

\* C14 as stated: checkProfitableCollapse(pair) returns true (and appends one
\* COLLAPSE_ALERT) whenever peakProfit is at least 0.5% of the total cost basis
\* and currentProfit <= 0, breakeven included; it returns false otherwise.
C14_CollapseAtBreakeven == [][CollapseVerdict(BreakevenOrWorse)]_vars

\* C14 amended: checkProfitableCollapse(pair) returns true (and appends one
\* COLLAPSE_ALERT) exactly when the position exists, peakProfit is at least 0.5%
\* of the total cost basis and currentProfit is strictly below 0; at breakeven
\* (currentProfit = 0) it returns false and appends nothing.
C14_CollapseBelowBreakeven == [][CollapseVerdict(Underwater)]_vars

\* a position that peaked at 0.5% or more and is back at breakeven: no collapse
C14_Witness ==
    /\ last.op = "checkProfitableCollapse"
    /\ last.ret = FALSE
    /\ MapHas(positions, last.pair)
    /\ MapGet(positions, last.pair).peakProfit * 200 >= CostBasis(MapGet(positions, last.pair))
    /\ MapGet(positions, last.pair).currentProfit = 0

\* C15: addPyramidLevel returns false when the position is missing, has 2
\* activated levels already, or holds the requested level, and then nothing is
\* mutated: the position (pyramidLevels, totalVolume, pyramidLevelsActivated),
\* the activity feed and the persisted snapshot are unchanged; when it returns
\* true exactly one level is appended, totalVolume grows by the given volume,
\* pyramidLevelsActivated grows by 1, one PYRAMID record is appended and the
\* state is persisted.
C15_PyramidAllOrNothing ==
    [][ IsCall("addPyramidLevel")
          => LET level == last'.args[1]
                 entryPrice == last'.args[2]
                 volume == last'.args[3]
             IN /\ last'.ret = FALSE
                      <=> \/ ~MapHas(positions, last'.pair)
                          \/ Before.pyramidLevelsActivated >= 2
                          \/ \E i \in 1..Len(Before.pyramidLevels) :
                                 Before.pyramidLevels[i].level = level
                /\ last'.ret = FALSE
                      => UNCHANGED <<positions, closedPositions, activityFeed, disk>>
                /\ last'.ret = TRUE
                      => /\ MapHas(positions', last'.pair)
                         /\ Len(After.pyramidLevels) = Len(Before.pyramidLevels) + 1
                         /\ SubSeq(After.pyramidLevels, 1, Len(Before.pyramidLevels))
                               = Before.pyramidLevels
                         /\ After.pyramidLevels[Len(After.pyramidLevels)].level = level
                         /\ After.pyramidLevels[Len(After.pyramidLevels)].entryPrice = entryPrice
                         /\ After.pyramidLevels[Len(After.pyramidLevels)].volume = volume
                         /\ After.totalVolume = Before.totalVolume + volume
                         /\ After.pyramidLevelsActivated = Before.pyramidLevelsActivated + 1
                         /\ OneRecordAppended("PYRAMID")
                         /\ UNCHANGED closedPositions
                         /\ disk' # NoFile
                         /\ disk'.open = SerializeAll(positions')
                         /\ disk'.closed = SerializeAll(closedPositions') ]_vars

\* a second pyramid level accepted on a position that already had one
C15_Witness ==
    /\ last.op = "addPyramidLevel"
    /\ last.ret = TRUE
    /\ MapHas(positions, last.pair)
    /\ Len(MapGet(positions, last.pair).pyramidLevels) = 2
    /\ MapGet(positions, last.pair).totalVolume = 3
    /\ activityFeed[Len(activityFeed)].action = "PYRAMID"

\* C16: isReadyForL1(pair, p, t) is true iff the position exists, its
\* pyramidLevels holds no level-1 entry, and p >= t; isReadyForL2(pair, p, t) is
\* true iff the position exists, its pyramidLevels holds a level-1 entry and no
\* level-2 entry, and p >= t; neither call changes any state.
C16_ReadinessByLevelEntries ==
    [][ LET p == last'.args[1]
            t == last'.args[2]
            reached == p[1] * t[2] >= t[1] * p[2]
            HasEntry(level) == \E i \in 1..Len(Before.pyramidLevels) :
                                  Before.pyramidLevels[i].level = level
        IN /\ IsCall("isReadyForL1")
                => /\ last'.ret = (/\ MapHas(positions, last'.pair)
                                   /\ ~HasEntry(1)
                                   /\ reached)
                   /\ UNCHANGED <<positions, closedPositions, activityFeed, disk>>
           /\ IsCall("isReadyForL2")
                => /\ last'.ret = (/\ MapHas(positions, last'.pair)
                                   /\ HasEntry(1)
                                   /\ ~HasEntry(2)
                                   /\ reached)
                   /\ UNCHANGED <<positions, closedPositions, activityFeed, disk>> ]_vars

\* C17: closePosition computes the final figures from L0 only: with or without
\* pyramid levels, and whatever the last refresh left, the closed entry has
\* profitPct = (exitPrice - entryPrice) / entryPrice x 100 and currentProfit =
\* (exitPrice - entryPrice) x L0 volume, while peakProfit, erosionUsed,
\* totalVolume and pyramidLevels are carried over unchanged.
C17_CloseFiguresFromL0 ==
    [][ (IsCall("closePosition") /\ MapHas(positions, last'.pair))
          => LET exitPrice == last'.args[1]
                 entry == closedPositions'[Len(closedPositions')]
             IN /\ Len(closedPositions') = Len(closedPositions) + 1
                /\ entry.id = Before.id
                /\ entry.profitPct[2] # 0
                /\ entry.profitPct[1] * Before.entryPrice
                      = (exitPrice - Before.entryPrice) * 100 * entry.profitPct[2]
                /\ entry.currentProfit = (exitPrice - Before.entryPrice) * Before.volume
                /\ entry.peakProfit = Before.peakProfit
                /\ entry.erosionUsed = Before.erosionUsed
                /\ entry.totalVolume = Before.totalVolume
                /\ entry.pyramidLevels = Before.pyramidLevels ]_vars

\* a pyramided position closed at 3060 after a refresh at 3060: the refresh
\* left a profit of 105 over both levels, the closed entry shows the 60 of L0
C17_Witness ==
    /\ last.op = "closePosition"
    /\ last.args[1] = 3060
    /\ Len(closedPositions) = 1
    /\ Len(closedPositions[1].pyramidLevels) = 1
    /\ closedPositions[1].peakProfit = 105
    /\ closedPositions[1].currentProfit = 60
    /\ closedPositions[1].totalVolume = 2

\* the profit of a position at a price, summed over L0 and its pyramid levels,
\* each level at its own entry price
ProfitAt(position, price) ==
    LET levels == position.pyramidLevels
        profit[i \in 0..Len(levels)] ==
            IF i = 0 THEN (price - position.entryPrice) * position.volume
            ELSE profit[i - 1] + (price - levels[i].entryPrice) * levels[i].volume
    IN profit[Len(levels)]

\* C18: after updatePosition(pair, price), currentProfit is the sum over L0 and
\* every pyramid level of (price - the level's entryPrice) x the level's
\* volume, and profitPct is currentProfit divided by the sum of entryPrice x
\* volume over the same levels, times 100 (0 when that cost basis is not
\* positive); updatePosition on an unknown pair changes nothing.
C18_RefreshSumsPerLevel ==
    [][ IsCall("updatePosition")
          => IF MapHas(positions, last'.pair)
             THEN /\ MapHas(positions', last'.pair)
                  /\ After.currentProfit = ProfitAt(Before, last'.args[1])
                  /\ After.profitPct[2] # 0
                  /\ IF CostBasis(Before) > 0
                     THEN After.profitPct[1] * CostBasis(Before)
                            = After.currentProfit * 100 * After.profitPct[2]
                     ELSE After.profitPct[1] = 0
             ELSE UNCHANGED <<positions, closedPositions, activityFeed, disk>> ]_vars

\* a refresh at 3060 of a position with L0 at 3000 and one level at 3015:
\* 60 + 45 = 105 on a cost basis of 6015
C18_Witness ==
    /\ last.op = "updatePosition"
    /\ last.args[1] = 3060
    /\ MapHas(positions, last.pair)
    /\ MapGet(positions, last.pair).volume = 1
    /\ Len(MapGet(positions, last.pair).pyramidLevels) = 1
    /\ MapGet(positions, last.pair).currentProfit = 105
    /\ MapGet(positions, last.pair).profitPct = <<10500, 6015>>

\* the kind of record a step emits, "" when it emits none: an accepted entry,
\* an accepted pyramid level, a close of an open position, a gate that fires
Emitted ==
    IF calls' # calls + 1 THEN ""
    ELSE IF last'.op = "addPosition"
         THEN (IF MapHas(positions, last'.pair) THEN "" ELSE "ENTRY")
    ELSE IF last'.op = "addPyramidLevel" THEN (IF last'.ret THEN "PYRAMID" ELSE "")
    ELSE IF last'.op = "closePosition"
         THEN (IF MapHas(positions, last'.pair) THEN "EXIT" ELSE "")
    ELSE IF last'.op = "checkErosionCap" THEN (IF last'.ret THEN "EROSION_ALERT" ELSE "")
    ELSE IF last'.op = "checkUnderwaterExit"
         THEN (IF last'.ret THEN "UNDERWATER_ALERT" ELSE "")
    ELSE IF last'.op = "checkProfitableCollapse"
         THEN (IF last'.ret THEN "COLLAPSE_ALERT" ELSE "")
    ELSE ""

\* C19: the activity feed holds at most 100 entries in insertion order, and
\* they are the most recent min(100, total emitted) records: a step that emits
\* no record leaves the feed as it was, a step that emits one puts it at the
\* end of the feed, and when the feed was full the oldest record and only the
\* oldest is evicted.
C19_FeedKeepsLast100 ==
    [][ /\ Len(activityFeed') <= 100
        /\ IF Emitted = ""
           THEN activityFeed' = activityFeed
           ELSE LET record == activityFeed'[Len(activityFeed')]
                IN /\ activityFeed' # <<>>
                   /\ record.action = Emitted
                   /\ record.pair = last'.pair
                   /\ record.timestamp = now
                   /\ activityFeed' = IF Len(activityFeed) < 100
                                      THEN Append(activityFeed, record)
                                      ELSE Append(Tail(activityFeed), record) ]_vars

\* four records logged on a feed of 98 (a close, a new entry, two pyramid
\* levels): the feed is full, the first entry record and the first alert have
\* been evicted, and the four new records are its last four
C19_Witness ==
    /\ Len(activityFeed) = 100
    /\ calls = 4
    /\ activityFeed[1] = CollapseAlert
    /\ activityFeed[96] = ErosionAlert
    /\ activityFeed[97].action = "EXIT"
    /\ activityFeed[98].action = "ENTRY"
    /\ activityFeed[99].action = "PYRAMID"
    /\ activityFeed[100].action = "PYRAMID"
    /\ last.op = "addPyramidLevel"

\* C20: getActivityFeed(limit) returns, for every limit >= 0 (0 and limits
\* larger than the feed included), exactly the min(limit, feed size) most
\* recent records, most recent first, and does not modify the feed.
C20_FeedReadMostRecentFirst ==
    [][ IsCall("getActivityFeed")
          => LET limit == last'.args[1]
                 size == Len(activityFeed)
                 count == IF limit < size THEN limit ELSE size
             IN /\ last'.ret = [i \in 1..count |-> activityFeed[size + 1 - i]]
                /\ UNCHANGED <<positions, closedPositions, activityFeed, disk>> ]_vars

\* the profit of the i-th closed trade
TradeProfit(i) == closedPositions[i].currentProfit

\* the sum of TradeProfit over a set of trades
RECURSIVE SumOver(_)
SumOver(indices) ==
    IF indices = {} THEN 0
    ELSE LET i == CHOOSE j \in indices : TRUE
         IN TradeProfit(i) + SumOver(indices \ {i})

Winners == {i \in 1..Len(closedPositions) : TradeProfit(i) > 0}
Losers == {i \in 1..Len(closedPositions) : TradeProfit(i) <= 0}

\* C21: getPerformanceStats on an empty closed history returns all-zero stats
\* with profitFactor 0; on a non-empty history totalTrades = winningTrades +
\* losingTrades (a trade with profit exactly 0 counts as losing), expectancy =
\* (totalProfit - totalLoss) / totalTrades, and profitFactor = totalProfit /
\* totalLoss when totalLoss > 0, infinite when totalLoss = 0 and totalProfit >
\* 0, and 0 otherwise; the call mutates nothing.
C21_PerformanceStats ==
    [][ IsCall("getPerformanceStats")
          => LET stats == last'.ret
                 totalProfit == SumOver(Winners)
                 totalLoss == -SumOver(Losers)
             IN /\ UNCHANGED <<positions, closedPositions, activityFeed, disk, accountBalance>>
                /\ \A f \in {"winRate", "expectancy", "profitFactor", "maxDrawdownPct"} :
                      stats[f] = Infinity \/ stats[f][2] > 0
                /\ closedPositions = <<>>
                      => /\ \A f \in {"totalTrades", "winningTrades", "losingTrades",
                                       "totalProfit", "totalLoss", "maxDrawdown"} :
                               stats[f] = 0
                         /\ \A f \in {"winRate", "expectancy", "profitFactor",
                                       "maxDrawdownPct"} :
                               stats[f][1] = 0 /\ stats[f][2] > 0
                /\ closedPositions # <<>>
                      => /\ stats.totalTrades = Len(closedPositions)
                         /\ stats.totalTrades = stats.winningTrades + stats.losingTrades
                         /\ stats.winningTrades = Cardinality(Winners)
                         /\ stats.losingTrades = Cardinality(Losers)
                         /\ stats.totalProfit = totalProfit
                         /\ stats.totalLoss = totalLoss
                         /\ stats.expectancy[2] > 0
                         /\ stats.expectancy[1] * stats.totalTrades
                               = (totalProfit - totalLoss) * stats.expectancy[2]
                         /\ IF totalLoss > 0
                            THEN /\ stats.profitFactor[2] > 0
                                 /\ stats.profitFactor[1] * totalLoss
                                       = totalProfit * stats.profitFactor[2]
                            ELSE IF totalProfit > 0
                            THEN stats.profitFactor = Infinity
                            ELSE stats.profitFactor[1] = 0 /\ stats.profitFactor[2] > 0 ]_vars

\* the statistics of a gain and a breakeven trade: the breakeven trade counts
\* as losing, nothing was lost, and the profit factor is infinite
C21_Witness ==
    /\ last.op = "getPerformanceStats"
    /\ last.ret.winningTrades = 1
    /\ last.ret.losingTrades = 1
    /\ last.ret.totalLoss = 0
    /\ last.ret.profitFactor = Infinity
    /\ \E i \in 1..Len(closedPositions) : closedPositions[i].currentProfit = 0

\* the cumulative P&L after the first k closed trades
CumulativeProfit(k) == SumOver(1..k)

\* the largest number of a non-empty finite set of integers
Highest(S) == CHOOSE x \in S : \A y \in S : y <= x

\* C22: getPerformanceStats reports maxDrawdown as the maximum, over all
\* prefixes of the closed history in append order, of the highest cumulative
\* P&L reached so far (starting from 0) minus the cumulative P&L at that
\* prefix; it is always >= 0, and maxDrawdownPct = maxDrawdown /
\* accountBalance x 100 (0 when accountBalance <= 0).
C22_MaxDrawdown ==
    [][ IsCall("getPerformanceStats")
          => LET stats == last'.ret
                 PeakAt(k) == Highest({CumulativeProfit(j) : j \in 0..k})
                 drawdowns == {PeakAt(k) - CumulativeProfit(k) : k \in 0..Len(closedPositions)}
             IN /\ stats.maxDrawdown = Highest(drawdowns)
                /\ stats.maxDrawdown >= 0
                /\ stats.maxDrawdownPct[2] > 0
                /\ IF accountBalance > 0
                   THEN stats.maxDrawdownPct[1] * accountBalance
                          = stats.maxDrawdown * 100 * stats.maxDrawdownPct[2]
                   ELSE stats.maxDrawdownPct[1] = 0 ]_vars

\* a gain of 60 followed by two losses of 30, read on a balance of 2000: the
\* drawdown is 60, or 3% of the balance
C22_Witness ==
    /\ last.op = "getPerformanceStats"
    /\ Len(closedPositions) = 3
    /\ closedPositions[1].currentProfit = 60
    /\ closedPositions[3].currentProfit = -30
    /\ accountBalance = 2000
    /\ last.ret.maxDrawdown = 60
    /\ last.ret.maxDrawdownPct = <<6000, 2000>>

\* the giveback of a position, in percent of its peak (0 without a positive
\* peak), is strictly above the given number of tenths of a percent
GivebackAbove(position, tenths) ==
    /\ position.peakProfit > 0
    /\ position.erosionUsed * 1000 > tenths * position.peakProfit

\* C23: getPositionHealth returns one record per open position, whose status
\* is ALERT iff the giveback (erosionUsed / peakProfit x 100, or 0 when
\* peakProfit <= 0) is strictly above the max-giveback percent of 50, RISK iff
\* it is above 70% of it (35) but not above it, CAUTION iff it is above 30% of
\* it (15) but not above 35, and HEALTHY otherwise; the long-held note (more
\* than 240 minutes) is attached only to CAUTION positions.
C23_HealthClassification ==
    [][ IsCall("getPositionHealth")
          => LET health == last'.ret
             IN /\ Len(health) = Len(positions)
                /\ UNCHANGED <<positions, closedPositions, activityFeed, disk>>
                /\ \A i \in 1..Len(positions) :
                      LET position == positions[i]
                          status == health[i].healthStatus
                      IN /\ health[i].pair = position.pair
                         /\ status \in {"ALERT", "RISK", "CAUTION", "HEALTHY"}
                         /\ status = "ALERT" <=> GivebackAbove(position, 500)
                         /\ status = "RISK" <=> /\ GivebackAbove(position, 350)
                                                /\ ~GivebackAbove(position, 500)
                         /\ status = "CAUTION" <=> /\ GivebackAbove(position, 150)
                                                   /\ ~GivebackAbove(position, 350)
                         /\ health[i].alertMessage = "Long-held position"
                               => /\ status = "CAUTION"
                                  /\ now - position.entryTime > 240 * 60000 ]_vars

\* the health of a position that gave back exactly 35% of its peak and has
\* been held for more than 240 minutes: CAUTION, with the long-held note
C23_Witness ==
    /\ last.op = "getPositionHealth"
    /\ Len(positions) = 1
    /\ positions[1].peakProfit = 60
    /\ positions[1].erosionUsed = 21
    /\ now - positions[1].entryTime > 240 * 60000
    /\ last.ret[1].healthStatus = "CAUTION"
    /\ last.ret[1].alertMessage = "Long-held position"

\* the operations on a pair other than addPosition: those that return nothing
\* and those that return a boolean
VoidPairOps == {"updatePosition", "closePosition"}
BooleanPairOps ==
    {"addPyramidLevel", "checkErosionCap", "checkUnderwaterExit", "checkProfitableCollapse",
     "checkStopLoss", "checkProfitTarget", "isReadyForL1", "isReadyForL2"}

\* C24: every ledger operation invoked with a pair that has no open position
\* (updatePosition, addPyramidLevel, closePosition, every check, isReadyForL1
\* and isReadyForL2) returns false or nothing and leaves the open set, the
\* closed history, the activity feed and the persisted snapshot unchanged.
C24_UnknownPairNoOp ==
    [][ (/\ calls' = calls + 1
         /\ last'.op \in VoidPairOps \cup BooleanPairOps
         /\ ~MapHas(positions, last'.pair))
          => /\ IF last'.op \in VoidPairOps THEN last'.ret = Void ELSE last'.ret = FALSE
             /\ UNCHANGED <<positions, closedPositions, activityFeed, disk>> ]_vars

\* isReadyForL1 asked, with the trigger reached, for a pair without a position
\* while the other pair has one
C24_Witness ==
    /\ last.op = "isReadyForL1"
    /\ ~MapHas(positions, last.pair)
    /\ Len(positions) = 1
    /\ ~FracLt(last.args[1], last.args[2])
    /\ last.ret = FALSE

\* C25: if writing the snapshot fails during a mutating operation, the
\* operation still completes and its in-memory effect is kept (the entry is in
\* the open set, the level is on the position, the trade is in the closed
\* history); a later mutating operation whose write succeeds persists the full
\* current state, the effect of the operation whose write had failed included.
C25_FailedWriteRetried ==
    [][ /\ (Emitted = "ENTRY" /\ ~diskWorking)
            => /\ MapHas(positions', last'.pair)
               /\ After.entryPrice = last'.args[1]
               /\ Len(positions') = Len(positions) + 1
        /\ (Emitted = "PYRAMID" /\ ~diskWorking)
            => /\ last'.ret = TRUE
               /\ Len(After.pyramidLevels) = Len(Before.pyramidLevels) + 1
        /\ (Emitted = "EXIT" /\ ~diskWorking)
            => /\ ~MapHas(positions', last'.pair)
               /\ Len(closedPositions') = Len(closedPositions) + 1
               /\ closedPositions'[Len(closedPositions')].id = Before.id
        /\ (Emitted \in {"ENTRY", "PYRAMID", "EXIT"} /\ diskWorking)
            => /\ disk' # NoFile
               /\ disk'.open = SerializeAll(positions')
               /\ disk'.closed = SerializeAll(closedPositions') ]_vars

\* a close whose write failed: the trade is in the closed history in memory,
\* the file still shows it open
C25_Witness ==
    /\ last.op = "closePosition"
    /\ ~diskWorking
    /\ Len(closedPositions) = 1
    /\ ~MapHas(positions, last.pair)
    /\ disk # NoFile
    /\ disk.closed = <<>>
    /\ \E i \in 1..Len(disk.open) : disk.open[i].pair = last.pair

\* C26: snapshot round trip: a new ledger constructed from a snapshot holds the
\* open positions of the in-memory state at the time of the save, keyed by
\* pair (same field values, at most one per pair), and the same closed history
\* in the same order: a successful save writes the in-memory open and closed
\* sets, and the constructor reads exactly what the file holds.
C26_SnapshotRoundTrip ==
    [][ /\ (Emitted \in {"ENTRY", "PYRAMID", "EXIT"} /\ diskWorking)
            => /\ disk' # NoFile
               /\ disk'.open = SerializeAll(positions')
               /\ disk'.closed = SerializeAll(closedPositions')
        /\ (IsCall("new") /\ disk # NoFile)
            => /\ UNCHANGED disk
               /\ \A i, j \in 1..Len(positions') :
                     positions'[i].pair = positions'[j].pair => i = j
               /\ \A i \in 1..Len(disk.open) :
                     /\ MapHas(positions', disk.open[i].pair)
                     /\ Serialize(MapGet(positions', disk.open[i].pair)) = disk.open[i]
               /\ \A i \in 1..Len(positions') :
                     \E j \in 1..Len(disk.open) : disk.open[j].pair = positions'[i].pair
               /\ Len(closedPositions') = Len(disk.closed)
               /\ \A i \in 1..Len(disk.closed) :
                     Serialize(closedPositions'[i]) = disk.closed[i]
        /\ (IsCall("new") /\ disk = NoFile)
            => positions' = <<>> /\ closedPositions' = <<>> ]_vars

\* a ledger constructed from a snapshot with one open position and two closed trades
C26_Witness ==
    /\ last.op = "new"
    /\ disk # NoFile
    /\ Len(positions) = 1
    /\ Len(closedPositions) = 2
    /\ closedPositions[1].exitPrice # closedPositions[2].exitPrice
    /\ disk.open = SerializeAll(positions)
    /\ disk.closed = SerializeAll(closedPositions)

PairOps == {"addPosition"} \cup VoidPairOps \cup BooleanPairOps

\* the open set after a call, as a function of the open set before it; the
\* checks and the readiness queries leave it as it is
OpenSetAfter(map, call) ==
    IF call.op = "addPosition"
    THEN IF MapHas(map, call.pair) THEN map
         ELSE MapSet(map, call.pair,
                     NewPositionAt(0, now, call.pair, call.args[1], call.args[2],
                                   call.args[3], call.args[4]))
    ELSE IF call.op = "updatePosition"
    THEN IF ~MapHas(map, call.pair) THEN map
         ELSE MapSet(map, call.pair, Refreshed(MapGet(map, call.pair), call.args[1]))
    ELSE IF call.op = "addPyramidLevel"
    THEN IF ~MapHas(map, call.pair) \/ PyramidRefused(MapGet(map, call.pair), call.args[1])
         THEN map
         ELSE MapSet(map, call.pair,
                     WithPyramidLevel(MapGet(map, call.pair),
                                      NewPyramidLevel(call.args[1], call.args[2],
                                                      call.args[3], call.args[4])))
    ELSE IF call.op = "closePosition" THEN MapDelete(map, call.pair)
    ELSE map

\* two open sets hold the same position, field by field, for every pair
SamePerPair(map1, map2) ==
    \A pair \in Pairs :
        /\ MapHas(map1, pair) <=> MapHas(map2, pair)
        /\ MapHas(map1, pair) => Serialize(MapGet(map1, pair)) = Serialize(MapGet(map2, pair))

\* the mutating calls that can be made on a pair
CallsOn(pair) ==
    {[op |-> "addPosition", pair |-> pair, args |-> <<e, v, s, t>>] :
        e \in EntryPrices, v \in Volumes, s \in StopLosses, t \in ProfitTargets}
    \cup {[op |-> "updatePosition", pair |-> pair, args |-> <<price>>] : price \in QueryPrices}
    \cup {[op |-> "addPyramidLevel", pair |-> pair, args |-> <<level, e, v, c>>] :
            level \in {1, 2}, e \in PyramidPrices, v \in PyramidVolumes, c \in Confidences}
    \cup {[op |-> "closePosition", pair |-> pair, args |-> <<e, r>>] :
            e \in ExitPrices, r \in ExitReasons}

\* C27: operations on one pair never affect another pair's position:
\* addPosition, updatePosition, addPyramidLevel, closePosition and every check
\* on pair A leave the open position of any pair B # A in place with every
\* field unchanged, and give B no position if it had none; so the call just
\* made and any mutating call on another pair give the same position for
\* every pair in either order.
C27_OtherPairsUntouched ==
    [][ (calls' = calls + 1 /\ last'.op \in PairOps)
          => LET call == [op |-> last'.op, pair |-> last'.pair, args |-> last'.args]
             IN /\ \A B \in Pairs \ {last'.pair} :
                      IF MapHas(positions, B)
                      THEN /\ MapHas(positions', B)
                           /\ MapGet(positions', B) = MapGet(positions, B)
                      ELSE ~MapHas(positions', B)
                /\ \A afterCall \in {OpenSetAfter(positions, call)} :
                      /\ SamePerPair(positions', afterCall)
                      /\ \A B \in Pairs \ {last'.pair} :
                         \A other \in (IF afterCall = positions THEN {} ELSE CallsOn(B)) :
                            \A afterOther \in {OpenSetAfter(positions, other)} :
                               \A thisWay \in {OpenSetAfter(afterCall, other)},
                                  thatWay \in {OpenSetAfter(afterOther, call)} :
                                     SamePerPair(thisWay, thatWay) ]_vars

\* ETH/USD entered, pyramided and closed around a BTC/USD position that was
\* entered first and is still as its entry left it
C27_Witness ==
    /\ last.op = "closePosition"
    /\ calls = 4
    /\ last.pair = "ETH/USD"
    /\ Len(closedPositions) = 1
    /\ Len(closedPositions[1].pyramidLevels) = 1
    /\ MapHas(positions, "BTC/USD")
    /\ MapGet(positions, "BTC/USD").id = 1
    /\ MapGet(positions, "BTC/USD").pyramidLevels = <<>>

\* C28: checkStopLoss(pair, price) is true iff price <= the position's L0
\* stopLoss, and checkProfitTarget(pair, price) is true iff price >= its L0
\* profitTarget; stopLoss and profitTarget are those given at entry and are
\* not changed by updatePosition or addPyramidLevel, so both verdicts are
\* independent of pyramid levels.
C28_StopAndTargetFixedAtEntry ==
    [][ /\ IsCall("checkStopLoss")
            => last'.ret = (/\ MapHas(positions, last'.pair)
                            /\ last'.args[1] <= Before.stopLoss)
        /\ IsCall("checkProfitTarget")
            => last'.ret = (/\ MapHas(positions, last'.pair)
                            /\ last'.args[1] >= Before.profitTarget)
        /\ (IsCall("addPosition") /\ ~MapHas(positions, last'.pair))
            => /\ After.stopLoss = last'.args[3]
               /\ After.profitTarget = last'.args[4]
        /\ ((IsCall("updatePosition") \/ IsCall("addPyramidLevel"))
               /\ MapHas(positions, last'.pair))
            => /\ MapHas(positions', last'.pair)
               /\ After.stopLoss = Before.stopLoss
               /\ After.profitTarget = Before.profitTarget ]_vars

\* the stop asked at exactly the stop price on a position that was refreshed
\* and pyramided since its entry
C28_Witness ==
    /\ last.op = "checkStopLoss"
    /\ last.ret = TRUE
    /\ calls = 4
    /\ MapHas(positions, last.pair)
    /\ last.args[1] = MapGet(positions, last.pair).stopLoss
    /\ Len(MapGet(positions, last.pair).pyramidLevels) = 1
    /\ MapGet(positions, last.pair).peakProfit > 0

\* the arithmetic mean of a non-empty array
Mean(values) == Over(SumFirst(values, Len(values)), Num(Len(values)))

ShortRsi == IsCall("calculateRSI") /\ Len(last'.args[1]) < last'.args[2] + 1
ShortMacd ==
    IsCall("calculateMACD") /\ Len(last'.args[1]) < last'.args[3] + last'.args[4] - 1
ShortAdx == IsCall("calculateADX") /\ Len(last'.args[1]) < 2 * last'.args[4] + 1
ShortMomentum == IsCall("calculateMomentum") /\ Len(last'.args[1]) < last'.args[2] + 1
ShortEma == IsCall("calculateEMA") /\ Len(last'.args[1]) < last'.args[2]
ShortSma == IsCall("calculateSMA") /\ Len(last'.args[1]) < last'.args[2]
NoAverageVolume ==
    /\ IsCall("calculateVolumeRatio")
    /\ \/ Len(last'.args[1]) = 0
       \/ Mean(Last(last'.args[1], MinInt(last'.args[2], Len(last'.args[1])))) = Num(0)
NoCandles == IsCall("calculateAllIndicators") /\ Len(last'.args[1]) = 0

MeanOfAvailable ==
    /\ ~IsNaN(last'.ret)
    /\ Len(last'.args[1]) > 0 => last'.ret = Mean(last'.args[1])

\* C29: on an input shorter than its window (empty and single-element inputs
\* included) every indicator returns its neutral default and never NaN:
\* calculateRSI 50, calculateMACD all zeros, calculateADX 20,
\* calculateVolumeRatio 1.0 for no volumes or a zero average, calculateMomentum
\* 0, calculateSMA and calculateEMA the mean of the values there are, and
\* calculateAllIndicators on no candles rsi 50, adx 20, volumeRatio 1.0 and
\* every other field 0.
C29_NeutralDefaults ==
    [][ /\ ShortRsi => last'.ret = Num(50)
        /\ ShortMacd
            => last'.ret = [line |-> Num(0), signal |-> Num(0), histogram |-> Num(0)]
        /\ ShortAdx => last'.ret = Num(20)
        /\ NoAverageVolume => last'.ret = Num(1)
        /\ ShortMomentum => last'.ret = Num(0)
        /\ ShortEma => MeanOfAvailable
        /\ ShortSma => MeanOfAvailable
        /\ NoCandles
            => last'.ret =
                 [rsi |-> Num(50),
                  macd |-> [line |-> Num(0), signal |-> Num(0), histogram |-> Num(0)],
                  adx |-> Num(20),
                  volumeRatio |-> Num(1),
                  momentum1h |-> Num(0),
                  momentum4h |-> Num(0),
                  recentHigh |-> Num(0),
                  recentLow |-> Num(0),
                  ema200 |-> Num(0)] ]_vars

WithinRange(x) == ~IsNaN(x) /\ ~Less(x, Num(0)) /\ ~Greater(x, Num(100))

\* the smoothed average loss of a calculateRSI call with enough closes is 0
NoAverageLoss ==
    /\ IsCall("calculateRSI")
    /\ Len(last'.args[1]) >= last'.args[2] + 1
    /\ Averages(Deltas(last'.args[1]), last'.args[2],
                Len(last'.args[1]) - 1).avgLoss = Num(0)

\* C30: for every sequence of finite values, of any length, calculateRSI and
\* calculateADX return a value within [0, 100], and calculateRSI returns
\* exactly 100 whenever the smoothed average loss is 0 (a flat series included).
C30_RsiAdxWithinRange ==
    [][ /\ IsCall("calculateRSI") => WithinRange(last'.ret)
        /\ IsCall("calculateADX") => WithinRange(last'.ret)
        /\ NoAverageLoss => last'.ret = Num(100) ]_vars

RECURSIVE SumVolume(_)
SumVolume(levels) ==
    IF levels = <<>> THEN 0 ELSE levels[1].volume + SumVolume(Tail(levels))

\* C32: for every open position in every reachable state, totalVolume is the
\* L0 volume plus the volumes of its pyramid levels, pyramidLevelsActivated is
\* the number of entries in pyramidLevels, and that number is 0, 1 or 2.
C32_AggregatesMatchLevels ==
    \A i \in 1..Len(positions) :
       /\ positions[i].totalVolume
            = positions[i].volume + SumVolume(positions[i].pyramidLevels)
       /\ positions[i].pyramidLevelsActivated = Len(positions[i].pyramidLevels)
       /\ positions[i].pyramidLevelsActivated \in {0, 1, 2}

\* a position that has taken both pyramid levels, and a third attempt refused
C32_Witness ==
    /\ last.op = "addPyramidLevel"
    /\ last.ret = FALSE
    /\ MapHas(positions, last.pair)
    /\ Len(MapGet(positions, last.pair).pyramidLevels) = 2
    /\ MapGet(positions, last.pair).totalVolume > MapGet(positions, last.pair).volume

\* C35: for every open position created through addPosition, in every
\* reachable state (after any mix of updatePosition and addPyramidLevel),
\* erosionUsed is peakProfit - currentProfit and peakProfit is not negative.
C35_ErosionIsPeakMinusCurrent ==
    \A i \in 1..Len(positions) :
       /\ positions[i].erosionUsed = positions[i].peakProfit - positions[i].currentProfit
       /\ positions[i].peakProfit >= 0

\* a pyramided position that fell back from its peak, refreshed after the level
C35_Witness ==
    /\ last.op = "updatePosition"
    /\ MapHas(positions, last.pair)
    /\ Len(MapGet(positions, last.pair).pyramidLevels) = 1
    /\ MapGet(positions, last.pair).peakProfit > 0
    /\ MapGet(positions, last.pair).erosionUsed > 0
    /\ MapGet(positions, last.pair).currentProfit < 0

\* C36: the never-profitable and the was-profitable exit gates exclude each
\* other: in no reachable state would checkUnderwaterExit return true for a
\* pair for which checkErosionCap or checkProfitableCollapse would return true.
C36_UnderwaterExcludesProfitGates ==
    \A i \in 1..Len(positions), config \in Configs :
       UnderwaterExit(positions[i], config)
          => /\ ~ErosionCapExceeded(positions[i])
             /\ ~ProfitableCollapse(positions[i])

\* the underwater exit has just fired for a position refreshed to a loss
C36_Witness ==
    /\ last.op = "checkUnderwaterExit"
    /\ last.ret = TRUE
    /\ MapHas(positions, last.pair)
    /\ MapGet(positions, last.pair).peakProfit = 0
    /\ ~ProfitableCollapse(MapGet(positions, last.pair))
    /\ ~ErosionCapExceeded(MapGet(positions, last.pair))

\* C37: with a max-giveback fraction of at most 1, wherever
\* checkProfitableCollapse would return true for a position whose peakProfit
\* is at least 1.0% of its total cost basis, checkErosionCap returns true too.
C37_CollapseImpliesErosionCap ==
    ~FracLt(<<1, 1>>, profitLockGivebackPct)
       => \A i \in 1..Len(positions) :
             (/\ ProfitableCollapse(positions[i])
              /\ ~FracLt(PeakProfitPct(positions[i]), <<1, 1>>))
                => ErosionCapExceeded(positions[i])

\* a position that peaked at 1.0% of its cost or more and is now at a loss,
\* asked for its erosion cap
C37_Witness ==
    /\ last.op = "checkErosionCap"
    /\ last.ret = TRUE
    /\ MapHas(positions, last.pair)
    /\ ProfitableCollapse(MapGet(positions, last.pair))
    /\ ~FracLt(PeakProfitPct(MapGet(positions, last.pair)), <<1, 1>>)
    /\ MapGet(positions, last.pair).currentProfit < 0

\* C38: the dashboard and the erosion gate agree: in every reachable state
\* getPositionHealth reports ALERT for a pair exactly when checkErosionCap of
\* that pair would return true.
C38_AlertIffErosionCap ==
    \A i \in 1..Len(positions) :
       (PositionHealth(positions[i]).healthStatus = "ALERT")
          <=> ErosionCapExceeded(positions[i])

\* C39: the advisory gates agree with the mutation they guard: when
\* isReadyForL1 has returned true the addPyramidLevel(pair, 1, ...) that follows
\* at once returns true, and when isReadyForL2 has returned true the
\* addPyramidLevel(pair, 2, ...) that follows at once returns true.
C39_ReadyThenLevelAccepted ==
    [][ /\ (/\ last.op = "isReadyForL1"
            /\ last.ret = TRUE
            /\ IsCall("addPyramidLevel")
            /\ last'.pair = last.pair
            /\ last'.args[1] = 1) => last'.ret = TRUE
        /\ (/\ last.op = "isReadyForL2"
            /\ last.ret = TRUE
            /\ IsCall("addPyramidLevel")
            /\ last'.pair = last.pair
            /\ last'.args[1] = 2) => last'.ret = TRUE ]_vars

\* the peak of the position is at least 1.0% of its total cost basis
Armed(position) == ~FracLt(PeakProfitPct(position), <<1, 1>>)

\* C40: the profit lock stays armed: once the peakProfit of an open position
\* is at least 1.0% of its total cost basis, it still is after every later
\* updatePosition and addPyramidLevel, until the position is closed.
C40_ProfitLockStaysArmed ==
    [][ (/\ IsCall("updatePosition") \/ IsCall("addPyramidLevel")
         /\ MapHas(positions, last'.pair)
         /\ Armed(Before))
           => /\ MapHas(positions', last'.pair)
              /\ Armed(After) ]_vars

\* the status with which a finished withRetry call ended
Outcome(request) == request.statuses[Len(request.statuses)]

Fatal(status) == status \in {401, 403, 429}

\* C33: withRetry always terminates, having invoked the request function at
\* most retries + 1 times (3 by default): an error with status 429, 401 or 403
\* is rethrown after that single attempt, any other error (the 408 of the
\* timeout included) is retried after a backoff of 2^attempt seconds, the
\* error of the last attempt is rethrown, and a success returns at once.
C33_WithRetryTerminates ==
    /\ [](\A r \in Requests :
            /\ requests[r].invoked <= requests[r].retries + 1
            /\ requests[r].invoked = Len(requests[r].statuses)
                                     + (IF requests[r].pc = "flight" THEN 1 ELSE 0)
            /\ requests[r].pc = "returned" => Outcome(requests[r]) = 200
            /\ requests[r].pc = "thrown" /\ requests[r].statuses # <<>>
                 => /\ Outcome(requests[r]) # 200
                    /\ \/ Fatal(Outcome(requests[r]))
                       \/ requests[r].invoked = requests[r].retries + 1
            /\ \A i \in 1..(Len(requests[r].statuses) - 1) :
                  /\ requests[r].statuses[i] # 200
                  /\ ~Fatal(requests[r].statuses[i]))
    /\ [][\A r \in Requests :
            /\ requests[r].pc = "flight" /\ requests'[r].pc = "backoff"
                 => requests'[r].due = now + Pow2(requests[r].attempt) * 1000
            /\ requests[r].pc = "backoff" /\ requests'[r].pc # "backoff"
                 => /\ now >= requests[r].failedAt + Pow2(requests[r].attempt) * 1000
                    /\ requests'[r].attempt = requests[r].attempt + 1
            /\ requests[r].pc \in {"returned", "thrown"}
                 => requests'[r] \in {requests[r], Idle}]_vars
    /\ \A r \in Requests :
          (requests[r].pc # "idle") ~> (requests[r].pc \in {"returned", "thrown"})

\* a call with the default two retries that failed twice, once by timeout,
\* and returned on its third attempt
C33_Witness ==
    /\ requests[1].pc = "returned"
    /\ requests[1].retries = MAX_RETRIES
    /\ requests[1].invoked = 3
    /\ requests[1].statuses = <<RequestTimeout, 500, 200>>

\* C34: rate limiting holds under concurrency: for any interleaving of
\* overlapping client calls (such as the two requests getTicker issues
\* together), any two request attempts are started at least REQUEST_DELAY_MS
\* (100 ms) apart.
C34_AttemptsSpacedApart ==
    Len(started) = 2 => started[2] - started[1] >= REQUEST_DELAY_MS

\* C31: every order request that placeOrder sends carries a quantity that is a
\* multiple of the symbol's LOT_SIZE stepSize, at least minQty and not greater
\* than the requested volume; and when the volume rounded down to the step is
\* below minQty, or stepSize is 0, placeOrder returns null and sends no order
\* request.
C31_OrdersMeetLotSize ==
    /\ [](\A i \in DOMAIN orders :
            LET listing == exchange[orders[i].symbol]
            IN listing.listed /\ listing.lotSize /\ listing.stepSize # 0
                 => /\ orders[i].quantity % listing.stepSize = 0
                    /\ orders[i].quantity >= listing.minQty
                    /\ orders[i].quantity <= orders[i].volume)
    /\ [][/\ last'.op = "placeOrder"
          /\ calls' = calls + 1
          /\ exchange[mapSymbol(last'.pair)].listed
          /\ \A listing \in {exchange[mapSymbol(last'.pair)]} :
                \/ ~listing.lotSize
                \/ listing.stepSize = 0
                \/ (last'.args.volume \div listing.stepSize) * listing.stepSize
                     < listing.minQty
          => /\ last'.ret = Null
             /\ orders' = orders]_vars

\* signedRequest finds the time synchronisation not yet due
SyncTimeNotDue == now - 0 <= TIME_SYNC_INTERVAL_MS

====
